---- MODULE Spec2Model ----
(***************************************************************************)
(* A model of the kedro_workshop pipelines: the geo-join engine of the     *)
(* transform stage (transform/nodes.py, transform/geo_utils.py), the       *)
(* cleaners and text parsers of the clean stage (clean/nodes.py), the      *)
(* extractors (extract/nodes.py) and the node graph declared by the        *)
(* pipeline.py files.                                                      *)
(*                                                                         *)
(* Conventions.                                                            *)
(*  - A nullable cell is a sequence: <<>> is null/NaN, <<v>> holds v.      *)
(*  - A float is a fixed-point integer; the unit is stated at each use.    *)
(*  - A text value is a sequence of one-character strings.                 *)
(*  - A table is a sequence of rows; a row is a function from column names *)
(*    to cells. A DataFrame built inside the code is a record              *)
(*    [columns, rows] so that a missing column is observable.              *)
(***************************************************************************)
EXTENDS Integers, Sequences, FiniteSets, TLC

VARIABLES
    pc,                \* position of the running function
    raised,            \* the exception that ended it, "none" when none
    \* _find_nearest_locations
    hdb_addresses,     \* source table (also create_feature_set's argument)
    locations,         \* target table
    location_type,     \* label
    distances,         \* the accumulator list of result dicts
    result_df,         \* the returned DataFrame
    \* create_feature_set
    hdb_resale_prices,
    mrt_stations,
    mrt_geodata,
    mall_geodata,
    operational_mrt,
    mrt_distances,
    mall_distances,
    address_features,
    feature_set,
    fn,                \* the function that was called
    step,              \* position of create_feature_set
    \* clean-stage parsers
    arg,               \* the parser's arguments
    ret,               \* its return value
    \* clean-stage table cleaners
    clean_df,          \* the table being cleaned
    \* extract stage
    warnings,          \* the warnings logged by the extractor
    \* the search run by several workers
    workers,           \* each worker's local variables
    \* a run of the node graph
    catalog,           \* the datasets that exist
    running,           \* the nodes that have started and not finished
    executed           \* how often each node has finished

vars == <<pc, raised, hdb_addresses, locations, location_type, distances,
          result_df, hdb_resale_prices, mrt_stations, mrt_geodata,
          mall_geodata, operational_mrt, mrt_distances, mall_distances,
          address_features, feature_set, fn, step, arg, ret, clean_df, warnings,
          workers, catalog, running, executed>>

searchVars == <<hdb_addresses, locations, location_type, distances, result_df>>

featureVars == <<hdb_resale_prices, mrt_stations, mrt_geodata, mall_geodata,
                 operational_mrt, mrt_distances, mall_distances,
                 address_features, feature_set, step>>

parserVars == <<arg, ret, clean_df, warnings>>

runnerVars == <<workers, catalog, running, executed>>

-----------------------------------------------------------------------------
(* Bounds of the model *)

MaxSources == 2
MaxTargets == 2
MaxTransactions == 2
MaxStoreyTokens == 3
MaxFlatTokens == 3
MaxBatchRows == 2
MaxElements == 3
MaxAddressRows == 3
MaxStations == 2
MaxExtractRows == 2
MaxDocElements == 2
MaxWorkers == 2

-----------------------------------------------------------------------------
(* Nullable cells and floats *)

NaN == <<>>

Some(v) == <<v>>

IsNaN(x) == x = <<>>

Val(x) == x[1]

\* Python's float "<": false as soon as one side is NaN.
FloatLt(x, y) == ~IsNaN(x) /\ ~IsNaN(y) /\ Val(x) < Val(y)

\* An empty DataFrame without columns (pd.DataFrame([])).
NoTable == [columns |-> {}, rows |-> <<>>]

SeqsUpTo(S, n) == UNION {[1..k -> S] : k \in 0..n}

-----------------------------------------------------------------------------
(* Haversine distance, in fixed point.                                     *)
(* Angles are whole degrees (np.radians followed by np.sin/np.cos is a     *)
(* table lookup by degree), sines and cosines are scaled by TrigScale,     *)
(* the argument of arcsin by ArcScale, distances are whole kilometres.     *)

\* round(sin(d degrees) * 10^4) for d = 0..90
SinTable ==
    <<0, 175, 349, 523, 698, 872, 1045, 1219, 1392, 1564, 1736, 1908, 2079,
      2250, 2419, 2588, 2756, 2924, 3090, 3256, 3420, 3584, 3746, 3907, 4067,
      4226, 4384, 4540, 4695, 4848, 5000, 5150, 5299, 5446, 5592, 5736, 5878,
      6018, 6157, 6293, 6428, 6561, 6691, 6820, 6947, 7071, 7193, 7314, 7431,
      7547, 7660, 7771, 7880, 7986, 8090, 8192, 8290, 8387, 8480, 8572, 8660,
      8746, 8829, 8910, 8988, 9063, 9135, 9205, 9272, 9336, 9397, 9455, 9511,
      9563, 9613, 9659, 9703, 9744, 9781, 9816, 9848, 9877, 9903, 9925, 9945,
      9962, 9976, 9986, 9994, 9998, 10000>>

\* The fixed-point value of 1.0 in the argument of arcsin: sin(90 degrees)
ArcScale == SinTable[91]

\* The fixed-point value of 1.0 of a sine or cosine: three decimals, so
\* that a product of three of them stays below 2^31
TrigScale == ArcScale \div 10

\* np.sin of an angle of d degrees, any integer d
Sin(d) ==
    LET m == d % 360
        s(x) == (SinTable[x + 1] + 5) \div 10
    IN  IF m <= 90 THEN s(m)
        ELSE IF m <= 180 THEN s(180 - m)
        ELSE IF m <= 270 THEN -s(m - 180)
        ELSE -s(360 - m)

\* np.cos of an angle of d degrees
Cos(d) == Sin(d + 90)

\* np.sin(x / 2) for an angle x of d degrees, d even
SinHalf(d) == Sin(d \div 2)

\* The integer square root, rounded down
RECURSIVE Sqrt(_)
Sqrt(a) ==
    IF a < 2 THEN a
    ELSE LET s == 2 * Sqrt(a \div 4)
         IN  IF (s + 1) * (s + 1) <= a THEN s + 1 ELSE s

\* The largest whole degree k in lo..hi with sin(k) <= x (bisection)
RECURSIVE DegreeBelow(_, _, _)
DegreeBelow(x, lo, hi) ==
    IF lo = hi THEN lo
    ELSE LET mid == (lo + hi + 1) \div 2
         IN  IF SinTable[mid + 1] <= x THEN DegreeBelow(x, mid, hi)
             ELSE DegreeBelow(x, lo, mid - 1)

\* np.arcsin, in hundredths of a degree: NaN outside [-1, 1], otherwise the
\* table inverted with linear interpolation between whole degrees
Arcsin(x) ==
    IF x > ArcScale \/ x < 0 THEN NaN
    ELSE IF x = ArcScale THEN Some(9000)
    ELSE LET d == DegreeBelow(x, 0, 89)
             lo == SinTable[d + 1]
             hi == SinTable[d + 2]
         IN  Some(100 * d + (100 * (x - lo)) \div (hi - lo))

\* c * r for c in hundredths of a degree and r in km: the arc length in km
ArcKm(c, r) == (((c * r) \div 100) * 355) \div (113 * 180)

\* Mutant: cos(lat1)**2 in place of cos(lat1) * cos(lat2)
HaversineOneLatitude(lat1, lon1, lat2, lon2, r) ==
    IF IsNaN(lat1) \/ IsNaN(lon1) \/ IsNaN(lat2) \/ IsNaN(lon2) THEN NaN
    ELSE LET dlat == Val(lat2) - Val(lat1)
             dlon == Val(lon2) - Val(lon1)
             sdlat == SinHalf(dlat)
             sdlon == SinHalf(dlon)
             coscos == (Cos(Val(lat1)) * Cos(Val(lat1))) \div TrigScale
             a == sdlat * sdlat + (coscos * (sdlon * sdlon)) \div TrigScale
             asn == Arcsin(Sqrt(a * (ArcScale \div TrigScale) * (ArcScale \div TrigScale)))
         IN  IF IsNaN(asn) THEN NaN ELSE Some(ArcKm(2 * Val(asn), r))

\* The Haversine formula shared by both variants, with the radius r
Haversine(lat1, lon1, lat2, lon2, r) ==
    IF IsNaN(lat1) \/ IsNaN(lon1) \/ IsNaN(lat2) \/ IsNaN(lon2) THEN NaN
    ELSE LET dlat == Val(lat2) - Val(lat1)
             dlon == Val(lon2) - Val(lon1)
             sdlat == SinHalf(dlat)
             sdlon == SinHalf(dlon)
             coscos == (Cos(Val(lat1)) * Cos(Val(lat2))) \div TrigScale
             \* a, scaled by TrigScale^2
             a == sdlat * sdlat + (coscos * (sdlon * sdlon)) \div TrigScale
             \* np.sqrt(a), scaled by ArcScale
             asn == Arcsin(Sqrt(a * (ArcScale \div TrigScale) * (ArcScale \div TrigScale)))
         IN  IF IsNaN(asn) THEN NaN ELSE Some(ArcKm(2 * Val(asn), r))

EARTH_RADIUS_KM == 6371

\* transform/nodes.py _calculate_distance_km (r = 6371 is a local)
CalculateDistanceKmNode(lat1, lon1, lat2, lon2) ==
    Haversine(lat1, lon1, lat2, lon2, 6371)

\* Mutant: the radius of the Earth in miles
CalculateDistanceKmUtilMiles(lat1, lon1, lat2, lon2) ==
    Haversine(lat1, lon1, lat2, lon2, 3959)

\* transform/geo_utils.py calculate_distance_km
CalculateDistanceKmUtil(lat1, lon1, lat2, lon2) ==
    Haversine(lat1, lon1, lat2, lon2, EARTH_RADIUS_KM)

-----------------------------------------------------------------------------
(* The nearest-neighbour search *)

\* f'nearest_{location_type}_name'
NameCol(label) == "nearest_" \o label \o "_name"

\* f'nearest_{location_type}_distance_km'
DistCol(label) == "nearest_" \o label \o "_distance_km"

\* Python's min(list, key=lambda x: x['distance_km']) on a non-empty list:
\* the running best is replaced only by a strictly smaller key
RECURSIVE MinFrom(_, _, _)
MinFrom(list, k, best) ==
    IF k > Len(list) THEN best
    ELSE MinFrom(list, k + 1,
                 IF FloatLt(list[k].distance_km, best.distance_km)
                 THEN list[k] ELSE best)

\* Mutant: the first element is taken for the minimum
PyMinFirstElement(list) == list[1]

\* Mutant: a later element with an equal key replaces the running best
RECURSIVE MinFromLastWins(_, _, _)
MinFromLastWins(list, k, best) ==
    IF k > Len(list) THEN best
    ELSE MinFromLastWins(list, k + 1,
                 IF FloatLt(best.distance_km, list[k].distance_km)
                    \/ IsNaN(list[k].distance_km)
                 THEN best ELSE list[k])

PyMinLastWins(list) == MinFromLastWins(list, 2, list[1])

PyMin(list) == MinFrom(list, 2, list[1])

\* pd.DataFrame(list of dicts): the columns are the dicts' keys, and an
\* empty list gives a frame without columns
DataFrameOf(dicts) ==
    [columns |-> IF dicts = <<>> THEN {} ELSE DOMAIN dicts[1], rows |-> dicts]

\* the dict appended to distances for one source row
ResultDict(hdb, label, nearest) ==
    ("block" :> hdb.block) @@ ("street_name" :> hdb.street_name)
    @@ (NameCol(label) :> nearest.name)
    @@ (DistCol(label) :> nearest.distance_km)

\* transform/nodes.py: the inner loop over locations.iterrows()
LocationDistancesNode(hdb, locs) ==
    [j \in 1..Len(locs) |->
        [name |-> locs[j].name,
         distance_km |-> CalculateDistanceKmNode(hdb.latitude, hdb.longitude,
                                                 locs[j].latitude, locs[j].longitude)]]

\* transform/geo_utils.py: the inner loop over target_locations.iterrows()
LocationDistancesUtil(source, targets) ==
    [j \in 1..Len(targets) |->
        [name |-> targets[j].name,
         distance_km |-> CalculateDistanceKmUtil(source.latitude, source.longitude,
                                                 targets[j].latitude, targets[j].longitude)]]

-----------------------------------------------------------------------------
(* Inputs of the search *)

Address(block, street_name, latitude, longitude) ==
    [block |-> block, street_name |-> street_name,
     latitude |-> latitude, longitude |-> longitude]

Location(name, latitude, longitude) ==
    [name |-> name, latitude |-> latitude, longitude |-> longitude]

\* Address rows: the address cleaner keeps rows whose coordinates are missing
SourceRows ==
    { Address("101", "ANG MO KIO AVE 1", Some(0), Some(0)),
      Address("101", "BEDOK NTH ST 2", Some(0), Some(30)),
      Address("102", "BEDOK NTH ST 2", Some(30), Some(30)),
      Address("102", "BEDOK NTH ST 2", NaN, NaN) }

\* Location rows: the geodata cleaner drops rows without coordinates
TargetPoints == { <<0, 0>>, <<0, 30>>, <<30, 0>> }

TargetNames == { "Bishan", "Tampines" }

TargetRows ==
    { Location(n, Some(p[1]), Some(p[2])) : n \in TargetNames, p \in TargetPoints }

Idle ==
    /\ step = "idle"
    /\ hdb_resale_prices = <<>>
    /\ mrt_stations = <<>>
    /\ mrt_geodata = <<>>
    /\ mall_geodata = <<>>
    /\ operational_mrt = <<>>
    /\ mrt_distances = NoTable
    /\ mall_distances = NoTable
    /\ address_features = NoTable
    /\ feature_set = NoTable
    /\ arg = <<>>
    /\ ret = <<>>
    /\ clean_df = NoTable
    /\ warnings = <<>>
    /\ workers = <<>>
    /\ catalog = {}
    /\ running = {}
    /\ executed = <<>>

\* A call of either variant of the search
Init ==
    /\ fn \in {"_find_nearest_locations", "find_nearest_locations"}
    /\ pc = "loop"
    /\ raised = "none"
    /\ hdb_addresses \in SeqsUpTo(SourceRows, MaxSources)
    /\ locations \in SeqsUpTo(TargetRows, MaxTargets)
    /\ location_type \in {"mrt", "mall"}
    /\ distances = <<>>
    /\ result_df = NoTable
    /\ Idle

\* Mutant: min(..., default=None), an empty target table gives a null row
NodeIterateNullOnEmpty ==
    /\ fn \in {"_find_nearest_locations", "create_feature_set"}
    /\ pc = "loop"
    /\ Len(distances) < Len(hdb_addresses)
    /\ LET hdb == hdb_addresses[Len(distances) + 1]
           location_distances == LocationDistancesNode(hdb, locations)
           nearest == IF location_distances = <<>>
                      THEN [name |-> "", distance_km |-> NaN]
                      ELSE PyMin(location_distances)
       IN  distances' = Append(distances, ResultDict(hdb, location_type, nearest))
    /\ UNCHANGED <<pc, raised, fn, hdb_addresses, locations, location_type,
                   result_df, featureVars, parserVars, runnerVars>>

\* One pass of `for _, hdb in hdb_addresses.iterrows()` (nodes.py 40-62):
\* min() of an empty list raises ValueError
NodeIterate ==
    /\ fn \in {"_find_nearest_locations", "create_feature_set"}
    /\ pc = "loop"
    /\ Len(distances) < Len(hdb_addresses)
    /\ LET hdb == hdb_addresses[Len(distances) + 1]
           location_distances == LocationDistancesNode(hdb, locations)
       IN  IF location_distances = <<>>
           THEN /\ raised' = "ValueError"
                /\ pc' = "error"
                /\ UNCHANGED distances
           ELSE /\ distances' = Append(distances,
                        ResultDict(hdb, location_type, PyMin(location_distances)))
                /\ UNCHANGED <<pc, raised>>
    /\ UNCHANGED <<fn, hdb_addresses, locations, location_type, result_df,
                   featureVars, parserVars, runnerVars>>

\* After the loop (nodes.py 64-67): the frame is built and the mean of its
\* distance column is logged, a KeyError when the frame has no columns
NodeReturn ==
    /\ fn \in {"_find_nearest_locations", "create_feature_set"}
    /\ pc = "loop"
    /\ Len(distances) = Len(hdb_addresses)
    /\ LET df == DataFrameOf(distances)
       IN  IF DistCol(location_type) \notin df.columns
           THEN /\ raised' = "KeyError"
                /\ pc' = "error"
                /\ UNCHANGED result_df
           ELSE /\ result_df' = df
                /\ pc' = "done"
                /\ UNCHANGED raised
    /\ UNCHANGED <<fn, hdb_addresses, locations, location_type, distances,
                   featureVars, parserVars, runnerVars>>

\* One pass of `for _, source in source_locations.iterrows()` (geo_utils.py 78-98)
UtilIterate ==
    /\ fn = "find_nearest_locations"
    /\ pc = "loop"
    /\ Len(distances) < Len(hdb_addresses)
    /\ LET source == hdb_addresses[Len(distances) + 1]
           location_distances == LocationDistancesUtil(source, locations)
       IN  IF location_distances = <<>>
           THEN /\ raised' = "ValueError"
                /\ pc' = "error"
                /\ UNCHANGED distances
           ELSE /\ distances' = Append(distances,
                        ResultDict(source, location_type, PyMin(location_distances)))
                /\ UNCHANGED <<pc, raised>>
    /\ UNCHANGED <<fn, hdb_addresses, locations, location_type, result_df,
                   featureVars, parserVars, runnerVars>>

\* After the loop (geo_utils.py 100-104)
UtilReturn ==
    /\ fn = "find_nearest_locations"
    /\ pc = "loop"
    /\ Len(distances) = Len(hdb_addresses)
    /\ LET df == DataFrameOf(distances)
       IN  IF DistCol(location_type) \notin df.columns
           THEN /\ raised' = "KeyError"
                /\ pc' = "error"
                /\ UNCHANGED result_df
           ELSE /\ result_df' = df
                /\ pc' = "done"
                /\ UNCHANGED raised
    /\ UNCHANGED <<fn, hdb_addresses, locations, location_type, distances,
                   featureVars, parserVars, runnerVars>>

Next == NodeIterate \/ NodeReturn \/ UtilIterate \/ UtilReturn

Spec == Init /\ [][Next]_vars

-----------------------------------------------------------------------------
(* Properties of the search, specification Spec *)

\* The distance function of the variant that was called
DistanceOf(src, tgt) ==
    IF fn = "find_nearest_locations"
    THEN CalculateDistanceKmUtil(src.latitude, src.longitude,
                                 tgt.latitude, tgt.longitude)
    ELSE CalculateDistanceKmNode(src.latitude, src.longitude,
                                 tgt.latitude, tgt.longitude)

\* The result rows so far: the accumulator, or the returned frame
Reported == IF pc = "done" THEN result_df.rows ELSE distances

SamePoint(a, b) == a.latitude = b.latitude /\ a.longitude = b.longitude

\* C1: the distance reported for a source row is the minimum of the
\* distances from it to all targets (no target is strictly nearer), the
\* reported name is the name of a target at that distance, and when exactly
\* one target coincides with the source and every other is farther, the
\* distance is 0 and the name is the coincident target's.
C1_NearestIsMinimum ==
    \A k \in 1..Len(Reported) :
        LET src == hdb_addresses[k]
            d == Reported[k][DistCol(location_type)]
            n == Reported[k][NameCol(location_type)]
        IN  /\ \E j \in 1..Len(locations) :
                    /\ DistanceOf(src, locations[j]) = d
                    /\ locations[j].name = n
            /\ \A j \in 1..Len(locations) :
                    ~FloatLt(DistanceOf(src, locations[j]), d)
            /\ \A j \in 1..Len(locations) :
                    ( /\ SamePoint(src, locations[j])
                      /\ ~IsNaN(src.latitude)
                      /\ \A j2 \in 1..Len(locations) \ {j} :
                            FloatLt(Some(0), DistanceOf(src, locations[j2])) )
                    => d = Some(0) /\ n = locations[j].name

\* C1 witness: a returned row at distance 0 whose coincident target is not
\* the first target, the first one being farther away
C1_Witness ==
    /\ pc = "done"
    /\ Len(locations) = 2
    /\ \E k \in 1..Len(result_df.rows) :
          /\ result_df.rows[k][DistCol(location_type)] = Some(0)
          /\ result_df.rows[k][NameCol(location_type)] = locations[2].name
          /\ locations[1].name # locations[2].name
          /\ FloatLt(Some(0), DistanceOf(hdb_addresses[k], locations[1]))

\* C6, as claimed: for every source table, the empty one included, and every
\* non-empty target table the search returns one row per source row, with
\* that row's block and street_name and the two nearest_<label> columns.
C6_OneRowPerSource ==
    (pc \in {"done", "error"} /\ locations # <<>>) =>
        /\ pc = "done"
        /\ Len(result_df.rows) = Len(hdb_addresses)
        /\ \A k \in 1..Len(result_df.rows) :
              /\ DOMAIN result_df.rows[k] =
                    {"block", "street_name",
                     NameCol(location_type), DistCol(location_type)}
              /\ result_df.rows[k]["block"] = hdb_addresses[k].block
              /\ result_df.rows[k]["street_name"] = hdb_addresses[k].street_name

\* C7: when several targets are at the same minimal distance from a source
\* row, the reported name is that of the first of them in the target
\* table's order.
C7_FirstMinimumWins ==
    \A k \in 1..Len(Reported) :
        LET src == hdb_addresses[k]
            d == Reported[k][DistCol(location_type)]
            atMin == {j \in 1..Len(locations) : DistanceOf(src, locations[j]) = d}
        IN  ~IsNaN(d) =>
              /\ atMin # {}
              /\ Reported[k][NameCol(location_type)] =
                    locations[CHOOSE j \in atMin : \A j2 \in atMin : j <= j2].name

\* C7 witness: two targets of different names tie at the minimal distance
C7_Witness ==
    /\ pc = "done"
    /\ Len(locations) = 2
    /\ locations[1].name # locations[2].name
    /\ \E k \in 1..Len(result_df.rows) :
          /\ ~IsNaN(result_df.rows[k][DistCol(location_type)])
          /\ DistanceOf(hdb_addresses[k], locations[1])
                = DistanceOf(hdb_addresses[k], locations[2])
          /\ ~SamePoint(locations[1], locations[2])
          /\ result_df.rows[k][NameCol(location_type)] = locations[1].name

-----------------------------------------------------------------------------
(* create_feature_set (transform/nodes.py 70-119) *)

\* The columns of the cleaned transaction table that the model carries
ResaleColumns ==
    {"town", "block", "street_name", "resale_price", "floor_area_sqm",
     "room_count", "remaining_lease_months", "storey_median"}

\* ml_features (nodes.py 103-111)
ml_features ==
    {"resale_price", "floor_area_sqm", "room_count", "remaining_lease_months",
     "storey_median", "nearest_mrt_distance_km", "nearest_mall_distance_km"}

\* Mutant: the join compares the block alone
SameBlock(a, b) == a["block"] = b["block"]

\* on=['block', 'street_name']
SameKey(a, b) == a["block"] = b["block"] /\ a["street_name"] = b["street_name"]

\* The rows of right that join one left row, in right's order, each
\* carrying the columns of both
RECURSIVE JoinOne(_, _, _)
JoinOne(l, right, j) ==
    IF j > Len(right) THEN <<>>
    ELSE (IF SameKey(l, right[j]) THEN <<l @@ right[j]>> ELSE <<>>)
         \o JoinOne(l, right, j + 1)

RECURSIVE JoinRows(_, _, _)
JoinRows(left, right, i) ==
    IF i > Len(left) THEN <<>>
    ELSE JoinOne(left[i], right, 1) \o JoinRows(left, right, i + 1)

\* Mutant: the join keeps one row per key, the first
MergeOncePerKey(left, right) ==
    LET joined == JoinRows(left.rows, right.rows, 1)
        kept[i \in 0..Len(joined)] ==
            IF i = 0 THEN <<>>
            ELSE IF \E j \in 1..(i - 1) : SameKey(joined[j], joined[i])
                 THEN kept[i - 1]
                 ELSE Append(kept[i - 1], joined[i])
    IN  [columns |-> left.columns \cup right.columns, rows |-> kept[Len(joined)]]

\* left.merge(right, on=['block', 'street_name'], how='inner'): the rows in
\* left's order; no other column is shared, so none is renamed
Merge(left, right) ==
    [columns |-> left.columns \cup right.columns,
     rows |-> JoinRows(left.rows, right.rows, 1)]

\* Mutant: every address is taken for a station's name
IsInAll(name, stations) == TRUE

\* mrt_geodata['name'].isin(mrt_stations['Name']), for one name
IsIn(name, stations) == \E k \in 1..Len(stations) : stations[k].Name = name

\* mrt_geodata[mrt_geodata['name'].isin(mrt_stations['Name'])]
FilterOperationalMrt(geodata, stations) ==
    SelectSeq(geodata, LAMBDA row : IsIn(row.name, stations))

\* Mutant: a null cell is kept
HasNullNever(row) == FALSE

HasNull(row) == \E c \in DOMAIN row : IsNaN(row[c])

\* df[ml_features]: the projection of every row
Project(df, cols) ==
    [columns |-> cols,
     rows |-> [k \in 1..Len(df.rows) |-> [c \in cols |-> df.rows[k][c]]]]

\* df.dropna()
DropNa(df) ==
    [columns |-> df.columns,
     rows |-> SelectSeq(df.rows, LAMBDA row : ~HasNull(row))]

Transaction(block, street_name, resale_price, floor_area_sqm) ==
    [town |-> "ANG MO KIO", block |-> block, street_name |-> street_name,
     resale_price |-> resale_price, floor_area_sqm |-> floor_area_sqm,
     room_count |-> Some(3), remaining_lease_months |-> Some(681),
     storey_median |-> Some(5)]

\* Cleaned transactions: the numeric coercion leaves nulls, the derived
\* columns are never null
TransactionRows ==
    { Transaction("101", "ANG MO KIO AVE 1", Some(300000), Some(67)),
      Transaction("102", "BEDOK NTH ST 2", Some(450000), Some(93)),
      Transaction("102", "BEDOK NTH ST 2", Some(450000), NaN),
      Transaction("101", "BEDOK NTH ST 2", Some(520000), Some(110)) }

\* Cleaned station geodata: one row per name, in name order
MrtGeodataTables ==
    { <<>>,
      <<Location("Bishan", Some(0), Some(0)), Location("Tampines", Some(0), Some(30))>>,
      <<Location("Tampines", Some(30), Some(0)), Location("Woodlands", Some(30), Some(30))>> }

\* Cleaned station reference tables
MrtStationTables ==
    { <<>>,
      <<[Name |-> "Tampines"]>>,
      <<[Name |-> "Bishan"], [Name |-> "Punggol"]>> }

\* Cleaned mall geodata
MallGeodataTables ==
    { <<>>,
      <<Location("Junction 8", Some(0), Some(30)), Location("Mustafa Centre", Some(30), Some(30))>> }

InitFeature ==
    /\ fn = "create_feature_set"
    /\ step = "start"
    /\ pc = "idle"
    /\ raised = "none"
    /\ hdb_resale_prices \in SeqsUpTo(TransactionRows, MaxTransactions)
    /\ hdb_addresses \in SeqsUpTo(SourceRows, MaxSources)
    /\ mrt_stations \in MrtStationTables
    /\ mrt_geodata \in MrtGeodataTables
    /\ mall_geodata \in MallGeodataTables
    /\ operational_mrt = <<>>
    /\ locations = <<>>
    /\ location_type = ""
    /\ distances = <<>>
    /\ result_df = NoTable
    /\ mrt_distances = NoTable
    /\ mall_distances = NoTable
    /\ address_features = NoTable
    /\ feature_set = NoTable
    /\ arg = <<>>
    /\ ret = <<>>
    /\ clean_df = NoTable
    /\ warnings = <<>>
    /\ workers = <<>>
    /\ catalog = {}
    /\ running = {}
    /\ executed = <<>>

\* nodes.py 81-85: the operational filter, then the call of the search on
\* the filtered stations
FilterAndSearchMrt ==
    /\ fn = "create_feature_set"
    /\ step = "start"
    /\ operational_mrt' = FilterOperationalMrt(mrt_geodata, mrt_stations)
    /\ locations' = operational_mrt'
    /\ location_type' = "mrt"
    /\ distances' = <<>>
    /\ pc' = "loop"
    /\ step' = "mrt_search"
    /\ UNCHANGED <<raised, fn, hdb_addresses, result_df, hdb_resale_prices,
                   mrt_stations, mrt_geodata, mall_geodata, mrt_distances,
                   mall_distances, address_features, feature_set, parserVars, runnerVars>>

\* nodes.py 85-86: the first search returned, the second is called on the
\* mall geodata
StoreMrtAndSearchMall ==
    /\ fn = "create_feature_set"
    /\ step = "mrt_search"
    /\ pc = "done"
    /\ mrt_distances' = result_df
    /\ locations' = mall_geodata
    /\ location_type' = "mall"
    /\ distances' = <<>>
    /\ result_df' = NoTable
    /\ pc' = "loop"
    /\ step' = "mall_search"
    /\ UNCHANGED <<raised, fn, hdb_addresses, hdb_resale_prices, mrt_stations,
                   mrt_geodata, mall_geodata, operational_mrt, mall_distances,
                   address_features, feature_set, parserVars, runnerVars>>

\* nodes.py 86-93: the second search returned, the two distance tables are
\* merged
MergeDistances ==
    /\ fn = "create_feature_set"
    /\ step = "mall_search"
    /\ pc = "done"
    /\ mall_distances' = result_df
    /\ address_features' = Merge(mrt_distances, mall_distances')
    /\ pc' = "idle"
    /\ step' = "merged"
    /\ UNCHANGED <<raised, fn, searchVars, hdb_resale_prices, mrt_stations,
                   mrt_geodata, mall_geodata, operational_mrt, mrt_distances,
                   feature_set, parserVars, runnerVars>>

\* nodes.py 96-119: the join with the transactions, the projection to
\* ml_features (a KeyError when one is missing), dropna, return
AssembleFeatureSet ==
    /\ fn = "create_feature_set"
    /\ step = "merged"
    /\ LET joined == Merge([columns |-> ResaleColumns, rows |-> hdb_resale_prices],
                           address_features)
       IN  IF ~(ml_features \subseteq joined.columns)
           THEN /\ raised' = "KeyError"
                /\ step' = "raised"
                /\ UNCHANGED feature_set
           ELSE /\ feature_set' = DropNa(Project(joined, ml_features))
                /\ step' = "returned"
                /\ UNCHANGED raised
    /\ UNCHANGED <<pc, fn, searchVars, hdb_resale_prices, mrt_stations,
                   mrt_geodata, mall_geodata, operational_mrt, mrt_distances,
                   mall_distances, address_features, parserVars, runnerVars>>

NextFeature ==
    \/ FilterAndSearchMrt
    \/ NodeIterate
    \/ NodeReturn
    \/ StoreMrtAndSearchMall
    \/ MergeDistances
    \/ AssembleFeatureSet

SpecFeature == InitFeature /\ [][NextFeature]_vars

-----------------------------------------------------------------------------
(* Properties of create_feature_set, specification SpecFeature *)

\* The rows of the station search: in flight, then stored
MrtRows == IF step = "mrt_search" THEN Reported ELSE mrt_distances.rows

\* The rows of the mall search
MallRows == IF step = "mall_search" THEN Reported ELSE mall_distances.rows

\* C2: a search run on an empty target table ends in an error, whether the
\* table is the station set left by the operational filter or the mall
\* table: it returns no result table and no row, create_feature_set does
\* not go on past it, and the search is never stuck short of the error.
C2_EmptyTargetsFatal ==
    /\ (pc \in {"loop", "done", "error"} /\ locations = <<>>) =>
          /\ pc # "done"
          /\ distances = <<>>
          /\ result_df = NoTable
          /\ pc = "error" => raised \in {"ValueError", "KeyError"}
          /\ pc = "loop" => ENABLED (NodeIterate \/ NodeReturn)
    /\ (step # "start" /\ operational_mrt = <<>>) =>
          /\ step = "mrt_search"
          /\ mrt_distances = NoTable
          /\ feature_set = NoTable
    /\ (step \notin {"start", "mrt_search"} /\ mall_geodata = <<>>) =>
          /\ step = "mall_search"
          /\ mall_distances = NoTable
          /\ feature_set = NoTable
    /\ \A k \in 1..Len(MrtRows) : Len(operational_mrt) = 0 =>
          ~IsNaN(MrtRows[k]["nearest_mrt_distance_km"])

\* C2 witness: the operational filter removed every station of a non-empty
\* geodata table and the search on what is left has raised
C2_Witness ==
    /\ step = "mrt_search"
    /\ mrt_geodata # <<>>
    /\ mrt_stations # <<>>
    /\ operational_mrt = <<>>
    /\ hdb_addresses # <<>>
    /\ pc = "error"
    /\ raised = "ValueError"

StationNames == {mrt_stations[k].Name : k \in 1..Len(mrt_stations)}

\* C3: the station reported as nearest to an address is a geodata row whose
\* name is in the Name column of the station reference table.
C3_OnlyOperationalStations ==
    \A k \in 1..Len(MrtRows) :
        /\ MrtRows[k]["nearest_mrt_name"] \in StationNames
        /\ \E g \in 1..Len(mrt_geodata) :
              mrt_geodata[g].name = MrtRows[k]["nearest_mrt_name"]

\* C3 witness: a geodata station that is not in the reference table is
\* strictly closer to an address than the station reported for it
C3_Witness ==
    /\ step = "merged"
    /\ \E k \in 1..Len(mrt_distances.rows), g \in 1..Len(mrt_geodata) :
          /\ mrt_geodata[g].name \notin StationNames
          /\ FloatLt(DistanceOf(hdb_addresses[k], mrt_geodata[g]),
                     mrt_distances.rows[k]["nearest_mrt_distance_km"])

SevenColumns ==
    {"resale_price", "floor_area_sqm", "room_count", "remaining_lease_months",
     "storey_median", "nearest_mrt_distance_km", "nearest_mall_distance_km"}

\* C4: a returned feature table has exactly the seven columns, no cell of
\* it is null, and each of its rows is a joined row of a transaction and
\* its address's distances with the cells unchanged (nothing is imputed);
\* a joined row with a null among the seven is not in it.
C4_SevenColumnsNoNull ==
    step = "returned" =>
        /\ feature_set.columns = SevenColumns
        /\ \A k \in 1..Len(feature_set.rows) :
              LET row == feature_set.rows[k]
              IN  /\ DOMAIN row = SevenColumns
                  /\ \A c \in SevenColumns : ~IsNaN(row[c])
                  /\ \E t \in 1..Len(hdb_resale_prices),
                        a \in 1..Len(address_features.rows) :
                        LET tx == hdb_resale_prices[t]
                            af == address_features.rows[a]
                        IN  /\ tx.block = af["block"]
                            /\ tx.street_name = af["street_name"]
                            /\ \A c \in SevenColumns :
                                  row[c] = IF c \in DOMAIN tx THEN tx[c] ELSE af[c]

\* C4 witness: a table was returned with a row, while a transaction with a
\* null floor area had an address to join and an address had a null distance
C4_Witness ==
    /\ step = "returned"
    /\ feature_set.rows # <<>>
    /\ \E t \in 1..Len(hdb_resale_prices), a \in 1..Len(address_features.rows) :
          /\ IsNaN(hdb_resale_prices[t].floor_area_sqm)
          /\ hdb_resale_prices[t].block = address_features.rows[a]["block"]
          /\ hdb_resale_prices[t].street_name = address_features.rows[a]["street_name"]
    /\ \E a \in 1..Len(address_features.rows) :
          IsNaN(address_features.rows[a]["nearest_mrt_distance_km"])

UniqueAddressKeys ==
    \A i, j \in 1..Len(hdb_addresses) :
        (hdb_addresses[i].block = hdb_addresses[j].block
         /\ hdb_addresses[i].street_name = hdb_addresses[j].street_name) => i = j

\* C5: when the address table has unique (block, street_name) keys, the
\* returned feature table has at most as many rows as the transaction table.
C5_RowBound ==
    (step = "returned" /\ UniqueAddressKeys) =>
        Len(feature_set.rows) <= Len(hdb_resale_prices)

\* C5 witness: two addresses of the same block with unique keys, and every
\* transaction has a row in the returned table
C5_Witness ==
    /\ step = "returned"
    /\ UniqueAddressKeys
    /\ Len(hdb_addresses) = 2
    /\ hdb_addresses[1].block = hdb_addresses[2].block
    /\ Len(hdb_resale_prices) = 2
    /\ Len(feature_set.rows) = 2

\* The five feature columns that come from the transaction table
TransactionFeatures == ml_features \ {"nearest_mrt_distance_km", "nearest_mall_distance_km"}

\* The address rows with the key of a transaction
AddressesOf(t) ==
    {k \in 1..Len(hdb_addresses) :
        hdb_addresses[k].block = t["block"]
        /\ hdb_addresses[k].street_name = t["street_name"]}

\* The distance from the address of a transaction to its nearest target
NearestDistance(t, targets) ==
    PyMin(LocationDistancesNode(hdb_addresses[CHOOSE k \in AddressesOf(t) : TRUE],
                                targets)).distance_km

\* The feature row of a transaction: its five columns and the two nearest
\* distances of its address
FeatureRowOf(t) ==
    [c \in ml_features |->
        IF c = "nearest_mrt_distance_km"
        THEN NearestDistance(t, FilterOperationalMrt(mrt_geodata, mrt_stations))
        ELSE IF c = "nearest_mall_distance_km"
        THEN NearestDistance(t, mall_geodata)
        ELSE t[c]]

\* The transactions whose key is in the address table and whose five
\* columns are not null, in the transaction table's order
CompleteTransactions ==
    SelectSeq(hdb_resale_prices, LAMBDA t :
        AddressesOf(t) # {} /\ \A c \in TransactionFeatures : ~IsNaN(t[c]))

\* Those of them whose address has both coordinates
LocatedTransactions ==
    SelectSeq(CompleteTransactions, LAMBDA t :
        \A k \in AddressesOf(t) :
            ~IsNaN(hdb_addresses[k].latitude) /\ ~IsNaN(hdb_addresses[k].longitude))

\* create_feature_set has ended: it returned, or it raised
FeatureSetEnded == step \in {"returned", "raised"} \/ pc = "error"

\* C24, as claimed: given an address table with unique keys and sets of
\* operational stations and of malls that are not empty, the feature table
\* holds exactly one row for every transaction whose key is in the address
\* table and whose five columns are not null, with the nearest distances of
\* its address, and no row for any other transaction.
C24_FanOutAsClaimed ==
    ( /\ FeatureSetEnded
      /\ UniqueAddressKeys
      /\ FilterOperationalMrt(mrt_geodata, mrt_stations) # <<>>
      /\ mall_geodata # <<>> ) =>
        /\ step = "returned"
        /\ feature_set.rows =
              [k \in 1..Len(CompleteTransactions) |-> FeatureRowOf(CompleteTransactions[k])]

\* C24 for returned tables: the rows are those of the transactions whose
\* address also has both coordinates; a transaction whose address lacks a
\* coordinate has null distances and no row.
C24_FanOutComplete ==
    (step = "returned" /\ UniqueAddressKeys) =>
        feature_set.rows =
            [k \in 1..Len(LocatedTransactions) |-> FeatureRowOf(LocatedTransactions[k])]

\* C24 witness: two transactions of one address both have a row, with that
\* address's distances, and the address table has a second address
C24_Witness ==
    /\ step = "returned"
    /\ UniqueAddressKeys
    /\ Len(hdb_addresses) = 2
    /\ Len(hdb_resale_prices) = 2
    /\ SameKey(hdb_resale_prices[1], hdb_resale_prices[2])
    /\ Len(feature_set.rows) = 2
    /\ feature_set.rows[1]["nearest_mrt_distance_km"]
          = feature_set.rows[2]["nearest_mrt_distance_km"]

-----------------------------------------------------------------------------
(* Python values and text, for the clean-stage parsers.                    *)
(* A value is [t |-> its type, chars |-> the characters of a str,          *)
(* v |-> the number of an int or a float in tenths, the year of a          *)
(* Timestamp].                                                             *)

PyStr(chars) == [t |-> "str", chars |-> chars, v |-> 0]
PyInt(n) == [t |-> "int", chars |-> <<>>, v |-> 10 * n]
PyFloat(tenths) == [t |-> "float", chars |-> <<>>, v |-> tenths]
NpInt64(n) == [t |-> "numpy.int64", chars |-> <<>>, v |-> 10 * n]
NpFloat64(tenths) == [t |-> "numpy.float64", chars |-> <<>>, v |-> tenths]
PyNaN == [t |-> "nan", chars |-> <<>>, v |-> 0]
PyNone == [t |-> "None", chars |-> <<>>, v |-> 0]
PyNaT == [t |-> "NaT", chars |-> <<>>, v |-> 0]
Timestamp(year) == [t |-> "Timestamp", chars |-> <<>>, v |-> year]

\* pd.isna(x) for a scalar
IsNa(x) == x.t \in {"nan", "None", "NaT"}

\* isinstance(x, (int, float)): numpy.float64 derives from float,
\* numpy.int64 does not derive from int
IsIntOrFloat(x) == x.t \in {"int", "float", "numpy.float64", "nan"}

DigitChars == <<"0", "1", "2", "3", "4", "5", "6", "7", "8", "9">>

IsDigit(c) == \E d \in 1..10 : DigitChars[d] = c

AllDigits(chars) == chars # <<>> /\ \A k \in 1..Len(chars) : IsDigit(chars[k])

DigitVal(c) == (CHOOSE d \in 1..10 : DigitChars[d] = c) - 1

IsSpace(c) == c = " "

\* The value of a run of decimal digits
RECURSIVE Decimal(_)
Decimal(digits) ==
    IF digits = <<>> THEN 0
    ELSE 10 * Decimal(SubSeq(digits, 1, Len(digits) - 1))
         + DigitVal(digits[Len(digits)])

\* str.strip() of whitespace
RECURSIVE Strip(_)
Strip(s) ==
    IF s = <<>> THEN s
    ELSE IF IsSpace(s[1]) THEN Strip(Tail(s))
    ELSE IF IsSpace(s[Len(s)]) THEN Strip(SubSeq(s, 1, Len(s) - 1))
    ELSE s

\* int(s) of a str: surrounding whitespace and one sign are accepted, the
\* rest must be digits; <<>> stands for ValueError, <<n>> for the value
IntOfStr(s) ==
    LET t == Strip(s)
        signed == t # <<>> /\ t[1] \in {"-", "+"}
        body == IF signed THEN Tail(t) ELSE t
    IN  IF body = <<>> \/ \E k \in 1..Len(body) : ~IsDigit(body[k]) THEN <<>>
        ELSE IF signed /\ t[1] = "-" THEN <<0 - Decimal(body)>>
        ELSE <<Decimal(body)>>

\* Whether sep occurs in s at position i
OccursAt(s, sep, i) ==
    /\ i + Len(sep) - 1 <= Len(s)
    /\ SubSeq(s, i, i + Len(sep) - 1) = sep

\* s.split(sep): the pieces between the occurrences of sep, left to right
RECURSIVE SplitFrom(_, _, _)
SplitFrom(s, sep, i) ==
    IF i > Len(s) THEN <<s>>
    ELSE IF OccursAt(s, sep, i)
         THEN <<SubSeq(s, 1, i - 1)>>
              \o SplitFrom(SubSeq(s, i + Len(sep), Len(s)), sep, 1)
         ELSE SplitFrom(s, sep, i + 1)

Split(s, sep) == SplitFrom(s, sep, 1)

\* str.lower(), on the letters of the model's texts
LowerChar(c) ==
    CASE c = "Y" -> "y" [] c = "E" -> "e" [] c = "A" -> "a" [] c = "R" -> "r"
      [] c = "S" -> "s" [] c = "M" -> "m" [] c = "O" -> "o" [] c = "N" -> "n"
      [] c = "T" -> "t" [] c = "H" -> "h" [] OTHER -> c

Lower(s) == [k \in 1..Len(s) |-> LowerChar(s[k])]

\* The end of the run of digits that starts at i (i - 1 when there is none)
RECURSIVE DigitRunEnd(_, _)
DigitRunEnd(s, i) ==
    IF i <= Len(s) /\ IsDigit(s[i]) THEN DigitRunEnd(s, i + 1) ELSE i - 1

\* The end of the run of whitespace that starts at i
RECURSIVE SpaceRunEnd(_, _)
SpaceRunEnd(s, i) ==
    IF i <= Len(s) /\ IsSpace(s[i]) THEN SpaceRunEnd(s, i + 1) ELSE i - 1

\* re.search(r'(\d+)\s*' + word, s): <<>> when nothing matches, otherwise
\* <<group 1>>. A match can only start at the first digit of a run of
\* digits and takes the whole run; the leftmost such match is returned.
RECURSIVE SearchCount(_, _, _)
SearchCount(s, word, i) ==
    IF i > Len(s) THEN <<>>
    ELSE IF ~IsDigit(s[i]) THEN SearchCount(s, word, i + 1)
    ELSE LET j == DigitRunEnd(s, i)
             k == SpaceRunEnd(s, j + 1)
         IN  IF OccursAt(s, word, k + 1) THEN <<SubSeq(s, i, j)>>
             ELSE SearchCount(s, word, j + 1)

SEP_TO == <<" ", "T", "O", " ">>
WORD_YEAR == <<"y", "e", "a", "r">>
WORD_MONTH == <<"m", "o", "n", "t", "h">>

\* A returned value or a raised exception
Returned(value) == [raised |-> "none", value |-> value]
Raised(exception) == [raised |-> exception, value |-> <<>>]

\* _parse_storey_range (clean/nodes.py 170-185); the median is in tenths.
\* A value that is neither null nor a str has no split: AttributeError,
\* which the except clause does not name.
ParseStoreyRange(storey_range) ==
    IF IsNa(storey_range) THEN Returned(<<0, 0, 0>>)
    ELSE IF storey_range.t # "str" THEN Raised("AttributeError")
    ELSE LET parts == Split(storey_range.chars, SEP_TO)
             min_storey == IntOfStr(parts[1])
         IN  IF min_storey = <<>> THEN Returned(<<0, 0, 0>>)      \* ValueError
             ELSE IF Len(parts) < 2 THEN Returned(<<0, 0, 0>>)    \* IndexError
             ELSE LET max_storey == IntOfStr(parts[2])
                  IN  IF max_storey = <<>> THEN Returned(<<0, 0, 0>>)
                      ELSE Returned(<<min_storey[1], max_storey[1],
                                      (10 * (min_storey[1] + max_storey[1])) \div 2>>)

\* Mutant: the months token is not added
ParseRemainingLeaseYearsOnly(lease_str, lease_commence_date, sale_date) ==
    IF lease_str.t = "str"
    THEN LET year_match == SearchCount(Lower(lease_str.chars), WORD_YEAR, 1)
         IN  Returned(<<IF year_match # <<>> THEN Decimal(year_match[1]) * 12 ELSE 0>>)
    ELSE Returned(<<0>>)

\* _parse_remaining_lease (clean/nodes.py 188-219)
ParseRemainingLease(lease_str, lease_commence_date, sale_date) ==
    IF lease_str.t = "str"
    THEN LET year_match == SearchCount(Lower(lease_str.chars), WORD_YEAR, 1)
             month_match == SearchCount(Lower(lease_str.chars), WORD_MONTH, 1)
         IN  Returned(<<(IF year_match # <<>> THEN Decimal(year_match[1]) * 12 ELSE 0)
                        + (IF month_match # <<>> THEN Decimal(month_match[1]) ELSE 0)>>)
    ELSE IF IsIntOrFloat(lease_str) /\ ~IsNa(lease_str)
    THEN Returned(<<(lease_str.v * 12) \div 10>>)          \* int(lease_str * 12)
    ELSE IF IsNa(lease_str) /\ ~IsNa(lease_commence_date) /\ ~IsNa(sale_date)
    THEN LET sale_year == sale_date.v
             years_elapsed == sale_year - (lease_commence_date.v \div 10)
             remaining_years == IF 99 - years_elapsed > 0 THEN 99 - years_elapsed ELSE 0
         IN  Returned(<<remaining_years * 12>>)
    ELSE Returned(<<0>>)

LowerLetters ==
    <<"a", "b", "c", "d", "e", "f", "g", "h", "i", "j", "k", "l", "m",
      "n", "o", "p", "q", "r", "s", "t", "u", "v", "w", "x", "y", "z">>

UpperLetters ==
    <<"A", "B", "C", "D", "E", "F", "G", "H", "I", "J", "K", "L", "M",
      "N", "O", "P", "Q", "R", "S", "T", "U", "V", "W", "X", "Y", "Z">>

UpperChar(c) ==
    IF \E k \in 1..26 : LowerLetters[k] = c
    THEN UpperLetters[CHOOSE k \in 1..26 : LowerLetters[k] = c]
    ELSE c

\* str.upper()
Upper(s) == [k \in 1..Len(s) |-> UpperChar(s[k])]

\* word in s
Contains(s, word) == \E i \in 1..Len(s) : OccursAt(s, word, i)

\* re.search(r'(\d+)', s): <<>> when s has no digit, otherwise <<group 1>>,
\* the leftmost run of digits
RECURSIVE SearchDigits(_, _)
SearchDigits(s, i) ==
    IF i > Len(s) THEN <<>>
    ELSE IF IsDigit(s[i]) THEN <<SubSeq(s, i, DigitRunEnd(s, i))>>
    ELSE SearchDigits(s, i + 1)

WORD_EXECUTIVE == <<"E", "X", "E", "C", "U", "T", "I", "V", "E">>
WORD_MULTI_GENERATION ==
    <<"M", "U", "L", "T", "I", "-", "G", "E", "N", "E", "R", "A", "T", "I", "O", "N">>

\* Mutant: the special flat types are not recognised
ExtractRoomCountDigitsOnly(flat_type) ==
    IF IsNa(flat_type) \/ flat_type.t # "str" THEN Returned(<<0>>)
    ELSE LET room_match == SearchDigits(Upper(Strip(flat_type.chars)), 1)
         IN  Returned(<<IF room_match # <<>> THEN Decimal(room_match[1]) ELSE 0>>)

\* _extract_room_count (clean/nodes.py 222-243). A value that is neither
\* null nor a str has no upper: AttributeError, which the except clause
\* turns into 0.
ExtractRoomCount(flat_type) ==
    IF IsNa(flat_type) THEN Returned(<<0>>)
    ELSE IF flat_type.t # "str" THEN Returned(<<0>>)          \* AttributeError
    ELSE LET upper == Upper(Strip(flat_type.chars))
         IN  IF Contains(upper, WORD_EXECUTIVE) \/ Contains(upper, WORD_MULTI_GENERATION)
             THEN Returned(<<6>>)
             ELSE LET room_match == SearchDigits(upper, 1)
                  IN  Returned(<<IF room_match # <<>> THEN Decimal(room_match[1]) ELSE 0>>)

-----------------------------------------------------------------------------
(* Table cells and the values a row hands to the parsers.                  *)
(* A cell is [kind, chars, v]: "text" (chars), "int" (a whole number of an *)
(* integer column), "float" (tenths, of a float column), "missing" (NaN),  *)
(* "date" (the year of a parsed month), "nat" (an unparseable month),      *)
(* "absent" (the table has no such column).                                *)

Cell(kind, v) == [kind |-> kind, chars |-> <<>>, v |-> v]

TextCell(chars) == [kind |-> "text", chars |-> chars, v |-> 0]

\* row['remaining_lease'], row.get(...) inside df.apply(..., axis=1)
\* (clean/nodes.py 43-50): the row is a Series of the common dtype of the
\* table's columns, int64 or float64 when every column is numeric and
\* object otherwise; an object row holds Python numbers, a numeric row
\* numpy scalars; a column that is not there gives None
RowValue(cell, row_dtype) ==
    CASE cell.kind = "absent" -> PyNone
      [] cell.kind = "text" -> PyStr(cell.chars)
      [] cell.kind = "date" -> Timestamp(cell.v)
      [] cell.kind = "nat" -> PyNaT
      [] cell.kind = "missing" -> PyNaN
      [] cell.kind = "int" ->
            IF row_dtype = "int64" THEN NpInt64(cell.v)
            ELSE IF row_dtype = "float64" THEN NpFloat64(10 * cell.v)
            ELSE PyInt(cell.v)
      [] cell.kind = "float" ->
            IF row_dtype = "float64" THEN NpFloat64(cell.v) ELSE PyFloat(cell.v)

\* The dtypes a row of these three cells can have: the table's other
\* columns may hold text (object) or floats (float64)
RowDtypes(cells) ==
    {"object"}
    \cup (IF \A c \in cells : c.kind \in {"int", "absent"} THEN {"int64"} ELSE {})
    \cup (IF \A c \in cells : c.kind \in {"int", "float", "missing", "absent"}
          THEN {"float64"} ELSE {})

-----------------------------------------------------------------------------
(* Inputs of the parsers *)

RECURSIVE Flatten(_)
Flatten(pieces) ==
    IF pieces = <<>> THEN <<>> ELSE Head(pieces) \o Flatten(Tail(pieces))

StoreyTokens ==
    { <<"0", "4">>, <<"0", "6">>, <<"1", "2">>, SEP_TO, <<"T", "O">>,
      <<" ">>, <<"-">>, <<"g">> }

StoreyTexts == {Flatten(p) : p \in SeqsUpTo(StoreyTokens, MaxStoreyTokens)}

\* The values df['storey_range'].apply hands over: text, or the numbers and
\* nulls of a column that holds no text
StoreyValues ==
    {PyStr(t) : t \in StoreyTexts} \cup {PyInt(5), PyFloat(45), PyNaN, PyNone}

\* n in decimal, with a leading zero when width is 2 and n < 10
Numeral(n, width) ==
    IF n >= 10 THEN <<DigitChars[(n \div 10) + 1], DigitChars[(n % 10) + 1]>>
    ELSE IF width = 2 THEN <<"0", DigitChars[n + 1]>>
    ELSE <<DigitChars[n + 1]>>

YearCounts == {0, 5, 56, 99}
MonthCounts == {0, 9, 11}
YearWords == { <<"y", "e", "a", "r", "s">>, <<"y", "e", "a", "r">>,
               <<"Y", "E", "A", "R", "S">> }
MonthWords == { <<"m", "o", "n", "t", "h", "s">>, <<"m", "o", "n", "t", "h">> }
Gaps == { <<" ">>, <<>> }
Prefixes == { <<>>, <<"7", " ">> }

\* A lease text with a years token, without months token
YearsText(prefix, y, yw, gap) == prefix \o Numeral(y, 1) \o gap \o yw

\* A lease text with a years token and a months token, in either order
YearsMonthsText(prefix, y, yw, m, mw, gap, width, monthsFirst) ==
    LET years == Numeral(y, 1) \o gap \o yw
        months == Numeral(m, width) \o gap \o mw
    IN  IF monthsFirst THEN prefix \o months \o <<" ">> \o years
        ELSE prefix \o years \o <<" ">> \o months

\* <<text, years, months>> of every lease text that has a years token
LeaseTextsWithYears ==
    { <<YearsText(p, y, yw, g), y, 0>> :
        p \in Prefixes, y \in YearCounts, yw \in YearWords, g \in Gaps }
    \cup
    { <<YearsMonthsText(q[1], q[2], q[3], q[4], q[5], q[6], q[7], q[8]), q[2], q[4]>> :
        q \in Prefixes \X YearCounts \X YearWords \X MonthCounts \X MonthWords
               \X Gaps \X {1, 2} \X BOOLEAN }

\* Lease texts without a years token
OtherLeaseTexts ==
    { <<>>, <<"x">>, <<"5", "6">>, <<"y", "e", "a", "r", "s">>,
      <<"0", "9", " ", "m", "o", "n", "t", "h", "s">> }

LeaseCells ==
    {TextCell(e[1]) : e \in LeaseTextsWithYears}
    \cup {TextCell(t) : t \in OtherLeaseTexts}
    \cup {Cell("int", 60), Cell("int", 0), Cell("float", 600), Cell("float", 605),
          Cell("missing", 0)}

CommenceCells ==
    {Cell("int", 1990), Cell("float", 19900), Cell("missing", 0), Cell("absent", 0)}

MonthCells == {Cell("date", 2020), Cell("date", 2100), Cell("nat", 0), Cell("absent", 0)}

LeaseRows ==
    { [remaining_lease |-> l, lease_commence_date |-> c, month |-> m, row_dtype |-> d] :
        l \in LeaseCells, c \in CommenceCells, m \in MonthCells,
        d \in {"object", "int64", "float64"} }

SLASH == <<"/">>

\* The days of a month of the Gregorian calendar
DaysInMonth(month, year) ==
    IF month = 2
    THEN IF year % 4 = 0 /\ (year % 100 # 0 \/ year % 400 = 0) THEN 29 ELSE 28
    ELSE IF month \in {4, 6, 9, 11} THEN 30 ELSE 31

\* pd.to_datetime(text, format='%m/%d/%Y', errors='coerce') of one text:
\* <<year>> of the date, <<>> for NaT. Month and day have one or two
\* digits, the year four, and the date must exist.
DateOfStr(chars) ==
    LET parts == Split(chars, SLASH)
    IN  IF Len(parts) # 3 THEN <<>>
        ELSE IF ~(AllDigits(parts[1]) /\ AllDigits(parts[2]) /\ AllDigits(parts[3])) THEN <<>>
        ELSE IF Len(parts[1]) > 2 \/ Len(parts[2]) > 2 \/ Len(parts[3]) # 4 THEN <<>>
        ELSE LET m == Decimal(parts[1])
                 d == Decimal(parts[2])
                 y == Decimal(parts[3])
             IN  IF m \in 1..12 /\ y >= 1 /\ d >= 1 /\ d <= DaysInMonth(m, y)
                 THEN <<y>> ELSE <<>>

\* One cell of pd.to_datetime(column, format='%m/%d/%Y', errors='coerce')
ToDatetime(cell) ==
    IF cell.kind = "text" /\ DateOfStr(cell.chars) # <<>>
    THEN Cell("date", DateOfStr(cell.chars)[1])
    ELSE Cell("nat", 0)

\* One cell of pd.to_numeric(column, errors='coerce'): a number stays, a
\* text of digits becomes its number, anything else NaN
ToNumeric(cell) ==
    IF cell.kind \in {"int", "float"} THEN cell
    ELSE IF cell.kind = "text" /\ AllDigits(Strip(cell.chars))
    THEN Cell("int", Decimal(Strip(cell.chars)))
    ELSE Cell("missing", 0)

\* The first exception among the outcomes of a column's apply, "none"
\* when every call returned
RECURSIVE FirstRaised(_, _)
FirstRaised(outcomes, k) ==
    IF k > Len(outcomes) THEN "none"
    ELSE IF outcomes[k].raised # "none" THEN outcomes[k].raised
    ELSE FirstRaised(outcomes, k + 1)

\* clean_hdb_resale_prices (clean/nodes.py 12-59) on a table that has the
\* month, numeric, storey_range, remaining_lease and flat_type columns.
\* The parsed month makes every row of df.apply(axis=1) an object row.
\* An exception of a parser leaves the function.
CleanHdbResalePrices(batch) ==
    LET n == Len(batch)
        month == [k \in 1..n |-> ToDatetime(batch[k].month)]
        resale_price == [k \in 1..n |-> ToNumeric(batch[k].resale_price)]
        floor_area_sqm == [k \in 1..n |-> ToNumeric(batch[k].floor_area_sqm)]
        lease_commence_date == [k \in 1..n |-> ToNumeric(batch[k].lease_commence_date)]
        storeys == [k \in 1..n |->
                       ParseStoreyRange(RowValue(batch[k].storey_range, "object"))]
        leases == [k \in 1..n |->
                      ParseRemainingLease(RowValue(batch[k].remaining_lease, "object"),
                                          RowValue(lease_commence_date[k], "object"),
                                          RowValue(month[k], "object"))]
        rooms == [k \in 1..n |->
                     ExtractRoomCount(RowValue(batch[k].flat_type, "object"))]
    IN  IF FirstRaised(storeys, 1) # "none" THEN Raised(FirstRaised(storeys, 1))
        ELSE IF FirstRaised(leases, 1) # "none" THEN Raised(FirstRaised(leases, 1))
        ELSE IF FirstRaised(rooms, 1) # "none" THEN Raised(FirstRaised(rooms, 1))
        ELSE Returned(<<[k \in 1..n |->
                 [month |-> month[k],
                  resale_price |-> resale_price[k],
                  floor_area_sqm |-> floor_area_sqm[k],
                  lease_commence_date |-> lease_commence_date[k],
                  storey_range |-> batch[k].storey_range,
                  remaining_lease |-> batch[k].remaining_lease,
                  flat_type |-> batch[k].flat_type,
                  storey_min |-> storeys[k].value[1],
                  storey_max |-> storeys[k].value[2],
                  storey_median |-> storeys[k].value[3],
                  remaining_lease_months |-> leases[k].value[1],
                  room_count |-> rooms[k].value[1]]]>>)

\* A well-formed raw transaction row
GoodRow ==
    [month |-> TextCell(<<"0", "1", "/", "1", "5", "/", "2", "0", "2", "0">>),
     resale_price |-> Cell("int", 300000),
     floor_area_sqm |-> Cell("float", 675),
     lease_commence_date |-> Cell("int", 1990),
     storey_range |-> TextCell(<<"0", "4", " ", "T", "O", " ", "0", "6">>),
     remaining_lease |-> TextCell(<<"5", "6", " ", "y", "e", "a", "r", "s", " ",
                                    "0", "9", " ", "m", "o", "n", "t", "h", "s">>),
     flat_type |-> TextCell(<<"3", " ", "R", "O", "O", "M">>)]

GARBAGE == <<"m", "i", "d", "-", "2", "0", "2", "8">>

\* The well-formed row and rows with malformed cells
BatchRows ==
    { GoodRow,
      [GoodRow EXCEPT !.month = TextCell(GARBAGE)],
      [GoodRow EXCEPT !.month = Cell("missing", 0), !.remaining_lease = Cell("missing", 0)],
      [GoodRow EXCEPT !.resale_price = TextCell(GARBAGE)],
      [GoodRow EXCEPT !.floor_area_sqm = Cell("missing", 0)],
      [GoodRow EXCEPT !.lease_commence_date = TextCell(GARBAGE),
                      !.remaining_lease = Cell("missing", 0)],
      [GoodRow EXCEPT !.storey_range = TextCell(GARBAGE)],
      [GoodRow EXCEPT !.storey_range = Cell("missing", 0)],
      [GoodRow EXCEPT !.storey_range = Cell("int", 5)],
      [GoodRow EXCEPT !.remaining_lease = Cell("missing", 0)],
      [GoodRow EXCEPT !.remaining_lease = TextCell(GARBAGE)],
      [GoodRow EXCEPT !.remaining_lease = Cell("int", 60)],
      [GoodRow EXCEPT !.flat_type = Cell("missing", 0)],
      [GoodRow EXCEPT !.flat_type = TextCell(<<"R", "O", "O", "M">>)],
      [GoodRow EXCEPT !.flat_type = Cell("int", 3)] }

\* Batches of one to MaxBatchRows rows
Batches == SeqsUpTo(BatchRows, MaxBatchRows) \ {<<>>}

\* GEOCODING_CONFIDENCE_THRESHOLD = 0.8, in hundredths
GEOCODING_CONFIDENCE_THRESHOLD == 80

\* df[df['type'] == 'address']
FilterByType(rows) == SelectSeq(rows, LAMBDA row : row["type"] = "address")

\* df[df['confidence'] >= GEOCODING_CONFIDENCE_THRESHOLD]; a comparison with
\* a null confidence is False
FilterByConfidence(rows) ==
    SelectSeq(rows, LAMBDA row :
        row["confidence"] # <<>> /\ row["confidence"][1] >= GEOCODING_CONFIDENCE_THRESHOLD)

\* df.drop_duplicates(subset=['block', 'street_name'], keep='first')
RECURSIVE DropDuplicates(_, _)
DropDuplicates(rows, seen) ==
    IF rows = <<>> THEN <<>>
    ELSE LET key == <<Head(rows)["block"], Head(rows)["street_name"]>>
         IN  IF key \in seen THEN DropDuplicates(Tail(rows), seen)
             ELSE <<Head(rows)>> \o DropDuplicates(Tail(rows), seen \cup {key})

\* Mutant: duplicates are removed before the rows are filtered
CleanHdbAddressGeodataDedupFirst(table) ==
    LET unique == IF "block" \in table.columns /\ "street_name" \in table.columns
                  THEN DropDuplicates(table.rows, {}) ELSE table.rows
        typed == IF "type" \in table.columns THEN FilterByType(unique) ELSE unique
        confident == IF "confidence" \in table.columns
                     THEN FilterByConfidence(typed) ELSE typed
    IN  Returned(<<[columns |-> table.columns, rows |-> confident]>>)

\* clean_hdb_address_geodata (clean/nodes.py 131-162)
CleanHdbAddressGeodata(table) ==
    LET typed == IF "type" \in table.columns THEN FilterByType(table.rows)
                 ELSE table.rows
        confident == IF "confidence" \in table.columns
                     THEN FilterByConfidence(typed) ELSE typed
        unique == IF "block" \in table.columns /\ "street_name" \in table.columns
                  THEN DropDuplicates(confident, {}) ELSE confident
    IN  Returned(<<[columns |-> table.columns, rows |-> unique]>>)

AddressColumns == {"block", "street_name", "type", "confidence", "latitude"}

\* Rows of a geocoded address table
GeocodedRows ==
    { [block |-> "101", street_name |-> sn, type |-> ty, confidence |-> <<cf>>,
       latitude |-> lat] :
        sn \in {"ANG MO KIO AVE 1", "BEDOK NTH ST 2"}, ty \in {"address", "street"},
        cf \in {79, 80}, lat \in {1, 2} }
    \cup { [block |-> "101", street_name |-> "ANG MO KIO AVE 1", type |-> "address",
            confidence |-> <<>>, latitude |-> 1] }

\* Geocoded address tables: with every column, or without one of the
\* columns the cleaner looks for
GeocodedTables ==
    { Project([columns |-> AddressColumns, rows |-> rows], cols) :
        rows \in SeqsUpTo(GeocodedRows, MaxAddressRows),
        cols \in {AddressColumns, AddressColumns \ {"type"},
                  AddressColumns \ {"confidence"}, AddressColumns \ {"block"}} }

\* The end of the run of characters other than whitespace that starts at i
RECURSIVE TokenEnd(_, _)
TokenEnd(s, i) ==
    IF i <= Len(s) /\ ~IsSpace(s[i]) THEN TokenEnd(s, i + 1) ELSE i - 1

\* len(s.split()) for the text from position i on: the number of runs of
\* characters that are not whitespace
RECURSIVE CountTokens(_, _)
CountTokens(s, i) ==
    IF i > Len(s) THEN 0
    ELSE IF IsSpace(s[i]) THEN CountTokens(s, i + 1)
    ELSE 1 + CountTokens(s, TokenEnd(s, i) + 1)

\* _count_station_lines (clean/nodes.py 246-249): a value that is not a str
\* has no split
CountStationLines(station_code) ==
    IF station_code.t # "str" THEN Raised("AttributeError")
    ELSE Returned(<<CountTokens(station_code.chars, 1)>>)

\* The positions of the stations whose opening date parsed
Operational(stations) ==
    {k \in 1..Len(stations) : ToDatetime(stations[k].Opening).kind = "date"}

\* The rows of a sequence at a set of positions, in order
RECURSIVE KeepAt(_, _, _)
KeepAt(rows, positions, k) ==
    IF k > Len(rows) THEN <<>>
    ELSE (IF k \in positions THEN <<rows[k]>> ELSE <<>>) \o KeepAt(rows, positions, k + 1)

\* df = mrt_stations; df['opening_date'] = pd.to_datetime(df['Opening'], ...)
\* (clean/nodes.py 66-70): df is the caller's table itself, so the column is
\* added to the table that was passed in
AssignOpeningDate(stations) ==
    [k \in 1..Len(stations) |->
        [Opening |-> stations[k].Opening,
         Code |-> stations[k].Code,
         opening_date |-> ToDatetime(stations[k].Opening)]]

\* clean_mrt_stations (clean/nodes.py 62-82)
CleanMrtStations(stations) ==
    LET operational_stations == KeepAt(stations, Operational(stations), 1)
        counts == [k \in 1..Len(operational_stations) |->
                      CountStationLines(RowValue(operational_stations[k].Code, "object"))]
    IN  IF FirstRaised(counts, 1) # "none" THEN Raised(FirstRaised(counts, 1))
        ELSE Returned(<<[k \in 1..Len(operational_stations) |->
                 [Opening |-> operational_stations[k].Opening,
                  Code |-> operational_stations[k].Code,
                  opening_date |-> ToDatetime(operational_stations[k].Opening),
                  line_count |-> counts[k].value[1]]]>>)

\* Opening values that are dates written as MM/DD/YYYY
DateOpenings ==
    { TextCell(<<"1", "1", "/", "0", "7", "/", "1", "9", "8", "7">>),
      TextCell(<<"2", "/", "2", "9", "/", "2", "0", "2", "0">>) }

\* Opening values that are no such date
OtherOpenings ==
    { TextCell(GARBAGE),
      TextCell(<<"0", "2", "/", "3", "0", "/", "2", "0", "2", "0">>),
      TextCell(<<"2", "0", "2", "0", "-", "0", "1", "-", "1", "5">>),
      Cell("missing", 0) }

StationCodes ==
    { TextCell(<<"N", "S", "1", " ", "E", "W", "2", "4">>),
      TextCell(<<"N", "S", "1">>),
      TextCell(<<" ", "N", "S", "1", " ", " ", "E", "W", "2", "4", " ", "C", "C", "1">>),
      TextCell(<<>>),
      Cell("missing", 0) }

StationRows ==
    { [Opening |-> o, Code |-> c] : o \in DateOpenings \cup OtherOpenings, c \in StationCodes }

StationTables == SeqsUpTo(StationRows, MaxStations)

FlatTokens ==
    { <<"3">>, <<"1", "2">>, <<" ">>, <<"R", "O", "O", "M">>, WORD_EXECUTIVE,
      <<"e", "x", "e", "c", "u", "t", "i", "v", "e">>, WORD_MULTI_GENERATION,
      <<"M", "U", "L", "T", "I">>, <<"-">> }

FlatTexts == {Flatten(p) : p \in SeqsUpTo(FlatTokens, MaxFlatTokens)}

\* The values df['flat_type'].apply hands over
FlatTypeValues ==
    {PyStr(t) : t \in FlatTexts} \cup {PyInt(3), PyFloat(30), PyNaN, PyNone}

InitClean ==
    /\ pc = "call"
    /\ raised = "none"
    /\ ret = <<>>
    /\ clean_df = NoTable
    /\ warnings = <<>>
    /\ workers = <<>>
    /\ catalog = {}
    /\ running = {}
    /\ executed = <<>>
    /\ \/ fn = "_parse_storey_range" /\ arg \in {<<v>> : v \in StoreyValues}
       \/ fn = "clean_hdb_resale_prices" /\ arg \in {<<b>> : b \in Batches}
       \/ fn = "clean_hdb_address_geodata" /\ arg \in {<<t>> : t \in GeocodedTables}
       \/ fn = "clean_mrt_stations" /\ arg \in {<<t>> : t \in StationTables}
       \/ fn = "_extract_room_count" /\ arg \in {<<v>> : v \in FlatTypeValues}
       \/ /\ fn = "_parse_remaining_lease"
          /\ arg \in {<<r>> : r \in
                {x \in LeaseRows : x.row_dtype \in
                    RowDtypes({x.remaining_lease, x.lease_commence_date, x.month})}}
    /\ step = "idle"
    /\ hdb_addresses = <<>>
    /\ locations = <<>>
    /\ location_type = ""
    /\ distances = <<>>
    /\ result_df = NoTable
    /\ hdb_resale_prices = <<>>
    /\ mrt_stations = <<>>
    /\ mrt_geodata = <<>>
    /\ mall_geodata = <<>>
    /\ operational_mrt = <<>>
    /\ mrt_distances = NoTable
    /\ mall_distances = NoTable
    /\ address_features = NoTable
    /\ feature_set = NoTable

\* df['storey_range'].apply(lambda x: pd.Series(_parse_storey_range(x)))
\* for one value (clean/nodes.py 36-38)
ApplyParseStoreyRange ==
    /\ fn = "_parse_storey_range"
    /\ pc = "call"
    /\ LET r == ParseStoreyRange(arg[1])
       IN  /\ raised' = r.raised
           /\ ret' = r.value
           /\ pc' = IF r.raised = "none" THEN "done" ELSE "error"
    /\ UNCHANGED <<fn, arg, clean_df, warnings, searchVars, featureVars, runnerVars>>

\* The lambda of df.apply(..., axis=1) for one row (clean/nodes.py 43-50)
ApplyParseRemainingLease ==
    /\ fn = "_parse_remaining_lease"
    /\ pc = "call"
    /\ LET row == arg[1]
           r == ParseRemainingLease(RowValue(row.remaining_lease, row.row_dtype),
                                    RowValue(row.lease_commence_date, row.row_dtype),
                                    RowValue(row.month, row.row_dtype))
       IN  /\ raised' = r.raised
           /\ ret' = r.value
           /\ pc' = IF r.raised = "none" THEN "done" ELSE "error"
    /\ UNCHANGED <<fn, arg, clean_df, warnings, searchVars, featureVars, runnerVars>>

\* df['flat_type'].apply(_extract_room_count) for one value
\* (clean/nodes.py 53-55)
ApplyExtractRoomCount ==
    /\ fn = "_extract_room_count"
    /\ pc = "call"
    /\ LET r == ExtractRoomCount(arg[1])
       IN  /\ raised' = r.raised
           /\ ret' = r.value
           /\ pc' = IF r.raised = "none" THEN "done" ELSE "error"
    /\ UNCHANGED <<fn, arg, clean_df, warnings, searchVars, featureVars, runnerVars>>

\* clean_hdb_resale_prices on one batch
CleanBatch ==
    /\ fn = "clean_hdb_resale_prices"
    /\ pc = "call"
    /\ LET r == CleanHdbResalePrices(arg[1])
       IN  /\ raised' = r.raised
           /\ ret' = r.value
           /\ pc' = IF r.raised = "none" THEN "done" ELSE "error"
    /\ UNCHANGED <<fn, arg, clean_df, warnings, searchVars, featureVars, runnerVars>>

\* clean_hdb_address_geodata on one table
CleanAddresses ==
    /\ fn = "clean_hdb_address_geodata"
    /\ pc = "call"
    /\ LET r == CleanHdbAddressGeodata(arg[1])
       IN  /\ raised' = r.raised
           /\ ret' = r.value
           /\ pc' = IF r.raised = "none" THEN "done" ELSE "error"
    /\ UNCHANGED <<fn, arg, clean_df, warnings, searchVars, featureVars, runnerVars>>

\* clean_mrt_stations on one table; the table handed in is left with the
\* opening_date column that line 70 assigned to it, also when a later line
\* raises
CleanStations ==
    /\ fn = "clean_mrt_stations"
    /\ pc = "call"
    /\ LET r == CleanMrtStations(arg[1])
       IN  /\ raised' = r.raised
           /\ ret' = r.value
           /\ pc' = IF r.raised = "none" THEN "done" ELSE "error"
    /\ arg' = <<AssignOpeningDate(arg[1])>>
    /\ UNCHANGED <<fn, clean_df, warnings, searchVars, featureVars, runnerVars>>

NextClean ==
    \/ CleanBatch
    \/ CleanStations
    \/ CleanAddresses
    \/ ApplyParseStoreyRange
    \/ ApplyParseRemainingLease
    \/ ApplyExtractRoomCount

SpecClean == InitClean /\ [][NextClean]_vars

-----------------------------------------------------------------------------
(* Properties of the parsers *)

\* A text of the form "NN TO MM"
IsRangeForm(chars) ==
    LET parts == Split(chars, SEP_TO)
    IN  Len(parts) = 2 /\ AllDigits(parts[1]) /\ AllDigits(parts[2])

\* C8: _parse_storey_range returns for every input value without raising:
\* (NN, MM, (NN+MM)/2) for a string of the form "NN TO MM", and the sentinel
\* (0, 0, 0.0) for every other string, every non-string value and null.
C8_StoreyRangeTotal ==
    (fn = "_parse_storey_range" /\ pc # "call") =>
        /\ raised = "none"
        /\ LET x == arg[1]
           IN  IF x.t = "str" /\ IsRangeForm(x.chars)
               THEN LET parts == Split(x.chars, SEP_TO)
                        NN == Decimal(parts[1])
                        MM == Decimal(parts[2])
                    IN  ret = <<NN, MM, (10 * (NN + MM)) \div 2>>
               ELSE ret = <<0, 0, 0>>

\* C9: for a lease text with a years token of count Y and optionally a
\* months token of count M, _parse_remaining_lease returns Y*12 + M (M = 0
\* without a months token), whatever lease_commence_date and month are.
C9_TextLease ==
    (fn = "_parse_remaining_lease" /\ pc # "call") =>
        \A e \in LeaseTextsWithYears :
            arg[1].remaining_lease = TextCell(e[1]) =>
                raised = "none" /\ ret = <<e[2] * 12 + e[3]>>

\* C9 witness: "56 years 09 months" in a row that has a lease commence year
\* and a sale month gave 681
C9_Witness ==
    /\ fn = "_parse_remaining_lease"
    /\ pc = "done"
    /\ arg[1].remaining_lease =
          TextCell(<<"5", "6", " ", "y", "e", "a", "r", "s", " ",
                     "0", "9", " ", "m", "o", "n", "t", "h", "s">>)
    /\ arg[1].lease_commence_date.kind = "int"
    /\ arg[1].month.kind = "date"
    /\ ret = <<681>>

\* C10: for a numeric, non-missing remaining_lease cell v of a table row, in
\* whatever integer or floating representation the row gives it, the result
\* is v*12 whole months.
C10_NumericLease ==
    (fn = "_parse_remaining_lease" /\ pc # "call"
        /\ arg[1].remaining_lease.kind \in {"int", "float"}) =>
        /\ raised = "none"
        /\ ret = <<IF arg[1].remaining_lease.kind = "int"
                   THEN arg[1].remaining_lease.v * 12
                   ELSE (arg[1].remaining_lease.v * 12) \div 10>>

\* C11: a missing remaining_lease with a lease commence year and a sale
\* month gives max(0, 99 - (sale_year - lease_commence_date)) * 12; a text
\* without a years token, and a missing remaining_lease whose lease commence
\* year or sale month is missing, give 0.
C11_MissingAndFallback ==
    (fn = "_parse_remaining_lease" /\ pc # "call") =>
        LET row == arg[1]
            commence == row.lease_commence_date
            year == IF commence.kind = "int" THEN commence.v ELSE commence.v \div 10
            left == 99 - (row.month.v - year)
        IN  /\ raised = "none"
            /\ (row.remaining_lease.kind = "missing"
                  /\ commence.kind \in {"int", "float"}
                  /\ row.month.kind = "date") =>
                     ret = <<(IF left > 0 THEN left ELSE 0) * 12>>
            /\ ((\E t \in OtherLeaseTexts : row.remaining_lease = TextCell(t))
                  \/ (row.remaining_lease.kind = "missing"
                        /\ (commence.kind \in {"missing", "absent"}
                             \/ row.month.kind \in {"nat", "absent"}))) =>
                     ret = <<0>>

\* The value of the first run of digits of a text that has a digit
FirstIntegerOf(chars) ==
    LET i == CHOOSE i \in 1..Len(chars) :
                 IsDigit(chars[i]) /\ \A k \in 1..(i - 1) : ~IsDigit(chars[k])
        j == CHOOSE j \in i..Len(chars) :
                 /\ \A k \in i..j : IsDigit(chars[k])
                 /\ j = Len(chars) \/ ~IsDigit(chars[j + 1])
    IN  Decimal(SubSeq(chars, i, j))

\* C12: _extract_room_count never raises; it returns 6 for a text that
\* contains EXECUTIVE or MULTI-GENERATION (in any letter case), otherwise the
\* value of the first integer in the text, and 0 for null, for a value that
\* is not text and for a text without an integer.
C12_RoomCount ==
    (fn = "_extract_room_count" /\ pc # "call") =>
        /\ raised = "none"
        /\ LET x == arg[1]
           IN  IF x.t # "str" THEN ret = <<0>>
               ELSE IF Contains(Upper(x.chars), WORD_EXECUTIVE)
                       \/ Contains(Upper(x.chars), WORD_MULTI_GENERATION)
               THEN ret = <<6>>
               ELSE IF \E k \in 1..Len(x.chars) : IsDigit(x.chars[k])
               THEN ret = <<FirstIntegerOf(x.chars)>>
               ELSE ret = <<0>>

\* C12 witness: "3 ROOM" gave 3, having no special word
C12_Witness ==
    /\ fn = "_extract_room_count"
    /\ pc = "done"
    /\ arg[1] = PyStr(<<"3", " ", "R", "O", "O", "M">>)
    /\ ret = <<3>>

\* C13: clean_hdb_resale_prices returns for every batch, with as many rows
\* as the batch has; an unparseable month is null, a non-numeric
\* resale_price, floor_area_sqm or lease_commence_date is null, and a
\* malformed storey_range, remaining_lease or flat_type gives the derived
\* columns their defaults.
C13_CleanerNeverAborts ==
    (fn = "clean_hdb_resale_prices" /\ pc # "call") =>
        /\ raised = "none"
        /\ Len(ret) = 1
        /\ Len(ret[1]) = Len(arg[1])
        /\ \A k \in 1..Len(arg[1]) :
              LET raw == arg[1][k]
                  out == ret[1][k]
              IN  /\ raw.month # GoodRow.month => out.month.kind = "nat"
                  /\ raw.resale_price.kind \notin {"int", "float"} =>
                        out.resale_price.kind = "missing"
                  /\ raw.floor_area_sqm.kind \notin {"int", "float"} =>
                        out.floor_area_sqm.kind = "missing"
                  /\ raw.lease_commence_date.kind \notin {"int", "float"} =>
                        out.lease_commence_date.kind = "missing"
                  /\ raw.storey_range # GoodRow.storey_range =>
                        <<out.storey_min, out.storey_max, out.storey_median>> = <<0, 0, 0>>
                  /\ raw.remaining_lease = TextCell(GARBAGE) =>
                        out.remaining_lease_months = 0
                  /\ raw.flat_type # GoodRow.flat_type => out.room_count = 0

-----------------------------------------------------------------------------
(* clean_mrt_geodata / clean_mall_geodata (clean/nodes.py 85-128).         *)
(* A document is the sequence of its elements; an element has a field for  *)
(* each key it can carry, <<>> when the key is not there. A table is       *)
(* [columns, rows], each row a function from the columns to cells, <<>>    *)
(* for a null cell. Coordinates are whole numbers; the coordinates of a    *)
(* merged table are means, kept in units of 1/MeanScale.                   *)

Element(name, lat, lon, center_lat, center_lon) ==
    [name |-> name, lat |-> lat, lon |-> lon,
     center_lat |-> center_lat, center_lon |-> center_lon]

\* The dotted column of each key of an element
ElementColumns ==
    [name |-> "tags.name", lat |-> "lat", lon |-> "lon",
     center_lat |-> "center.lat", center_lon |-> "center.lon"]

\* pd.json_normalize(data, record_path=["elements"]): a column for every
\* key that some element has, a null where an element lacks the key
ConvertOverpassJsonToDataframe(elements) ==
    LET keys == {f \in DOMAIN ElementColumns :
                    \E k \in 1..Len(elements) : elements[k][f] # <<>>}
        columns == {ElementColumns[f] : f \in keys}
    IN  [columns |-> columns,
         rows |-> [k \in 1..Len(elements) |->
                     [c \in columns |->
                        elements[k][CHOOSE f \in keys : ElementColumns[f] = c]]]]

\* df.get(column, pd.Series(index=df.index, dtype='float64')) for one row
GetOrNull(table, row, column) ==
    IF column \in table.columns THEN row[column] ELSE <<>>

\* series.fillna(other) for one cell
FillNa(cell, other) == IF cell = <<>> THEN other ELSE cell

\* df['latitude'] = df['lat'].fillna(center_lat), and the same for the
\* longitude (clean/nodes.py 92-95)
CoalesceCoordinates(table) ==
    [columns |-> table.columns \cup {"latitude", "longitude"},
     rows |-> [k \in 1..Len(table.rows) |->
                 LET row == table.rows[k]
                 IN  [c \in table.columns \cup {"latitude", "longitude"} |->
                        IF c = "latitude"
                        THEN FillNa(row["lat"], GetOrNull(table, row, "center.lat"))
                        ELSE IF c = "longitude"
                        THEN FillNa(row["lon"], GetOrNull(table, row, "center.lon"))
                        ELSE row[c]]]]

LocationColumns == {"name", "latitude", "longitude"}

\* df[['tags.name', 'latitude', 'longitude']].rename(columns={'tags.name': 'name'})
SelectLocationColumns(table) ==
    [columns |-> LocationColumns,
     rows |-> [k \in 1..Len(table.rows) |->
                 [c \in LocationColumns |->
                    IF c = "name" THEN table.rows[k]["tags.name"] ELSE table.rows[k][c]]]]

\* df.dropna(subset=['name', 'latitude', 'longitude'])
DropIncomplete(table) ==
    [columns |-> table.columns,
     rows |-> SelectSeq(table.rows, LAMBDA row : \A c \in LocationColumns : row[c] # <<>>)]

\* The names of the model, in sort order
NameOrder == <<"Bishan", "Mustafa Centre", "Tampines">>

MeanScale == 12

RECURSIVE SumOfGroup(_, _, _)
SumOfGroup(rows, name, column) ==
    IF rows = <<>> THEN 0
    ELSE (IF Head(rows)["name"] = <<name>> THEN Head(rows)[column][1] ELSE 0)
         + SumOfGroup(Tail(rows), name, column)

CountOfGroup(rows, name) ==
    Cardinality({k \in 1..Len(rows) : rows[k]["name"] = <<name>>})

\* Mutant: the first row of a group stands for the group
GroupFirst(rows, name, column) ==
    LET first == CHOOSE k \in 1..Len(rows) :
                     /\ rows[k]["name"] = <<name>>
                     /\ \A j \in 1..(k - 1) : rows[j]["name"] # <<name>>
    IN  rows[first][column][1] * MeanScale

\* agg 'mean' of one column of the group of one name
GroupMean(rows, name, column) ==
    (SumOfGroup(rows, name, column) * MeanScale) \div CountOfGroup(rows, name)

\* df.groupby('name').agg({'latitude': 'mean', 'longitude': 'mean'})
\* .reset_index(): one row per name, in sort order of the names
GroupByName(table) ==
    LET present == SelectSeq(NameOrder,
                       LAMBDA name : CountOfGroup(table.rows, name) > 0)
    IN  [columns |-> LocationColumns,
         rows |-> [k \in 1..Len(present) |->
                     [c \in LocationColumns |->
                        IF c = "name" THEN <<present[k]>>
                        ELSE <<GroupMean(table.rows, present[k], c)>>]]]

\* Elements: points, areas, elements with both positions, elements without
\* a name or without a position
GeoElements ==
    { Element(<<"Bishan">>, <<10>>, <<100>>, <<>>, <<>>),
      Element(<<"Bishan">>, <<13>>, <<106>>, <<>>, <<>>),
      Element(<<"Tampines">>, <<20>>, <<104>>, <<>>, <<>>),
      Element(<<"Mustafa Centre">>, <<>>, <<>>, <<30>>, <<110>>),
      Element(<<"Mustafa Centre">>, <<>>, <<>>, <<35>>, <<111>>),
      Element(<<"Tampines">>, <<40>>, <<120>>, <<44>>, <<124>>),
      Element(<<>>, <<50>>, <<130>>, <<>>, <<>>),
      Element(<<>>, <<>>, <<>>, <<60>>, <<140>>),
      Element(<<"Bishan">>, <<>>, <<>>, <<>>, <<>>) }

GeoDocuments == SeqsUpTo(GeoElements, MaxElements)

InitGeo ==
    /\ fn \in {"clean_mrt_geodata", "clean_mall_geodata"}
    /\ pc = "convert"
    /\ raised = "none"
    /\ arg \in {<<d>> : d \in GeoDocuments}
    /\ ret = <<>>
    /\ clean_df = NoTable
    /\ warnings = <<>>
    /\ workers = <<>>
    /\ catalog = {}
    /\ running = {}
    /\ executed = <<>>
    /\ step = "idle"
    /\ hdb_addresses = <<>>
    /\ locations = <<>>
    /\ location_type = ""
    /\ distances = <<>>
    /\ result_df = NoTable
    /\ hdb_resale_prices = <<>>
    /\ mrt_stations = <<>>
    /\ mrt_geodata = <<>>
    /\ mall_geodata = <<>>
    /\ operational_mrt = <<>>
    /\ mrt_distances = NoTable
    /\ mall_distances = NoTable
    /\ address_features = NoTable
    /\ feature_set = NoTable

IsGeoCleaner == fn \in {"clean_mrt_geodata", "clean_mall_geodata"}

\* df = _convert_overpass_json_to_dataframe(...) (clean/nodes.py 88, 111)
GeoConvert ==
    /\ IsGeoCleaner
    /\ pc = "convert"
    /\ clean_df' = ConvertOverpassJsonToDataframe(arg[1])
    /\ pc' = "coalesce"
    /\ UNCHANGED <<raised, fn, arg, ret, warnings, searchVars, featureVars, runnerVars>>

\* Coordinate coalescing (92-95, 115-118); df['lat'] and df['lon'] raise
\* KeyError when the table has no such column
GeoCoalesce ==
    /\ IsGeoCleaner
    /\ pc = "coalesce"
    /\ IF "lat" \in clean_df.columns /\ "lon" \in clean_df.columns
       THEN /\ clean_df' = CoalesceCoordinates(clean_df)
            /\ pc' = "select"
            /\ UNCHANGED raised
       ELSE /\ raised' = "KeyError"
            /\ pc' = "error"
            /\ UNCHANGED clean_df
    /\ UNCHANGED <<fn, arg, ret, warnings, searchVars, featureVars, runnerVars>>

\* Column selection, rename and dropna (98-101, 121-124); selecting
\* 'tags.name' raises KeyError when the table has no such column
GeoSelect ==
    /\ IsGeoCleaner
    /\ pc = "select"
    /\ IF "tags.name" \in clean_df.columns
       THEN /\ clean_df' = DropIncomplete(SelectLocationColumns(clean_df))
            /\ pc' = "duplicates"
            /\ UNCHANGED raised
       ELSE /\ raised' = "KeyError"
            /\ pc' = "error"
            /\ UNCHANGED clean_df
    /\ UNCHANGED <<fn, arg, ret, warnings, searchVars, featureVars, runnerVars>>

\* _handle_geodata_duplicates on an empty table: return df (252-255)
GeoPassThrough ==
    /\ IsGeoCleaner
    /\ pc = "duplicates"
    /\ Len(clean_df.rows) = 0
    /\ ret' = <<clean_df>>
    /\ pc' = "passed"
    /\ UNCHANGED <<raised, fn, arg, clean_df, warnings, searchVars, featureVars, runnerVars>>

\* _handle_geodata_duplicates on a non-empty table: groupby and mean
\* (257-267)
GeoMerge ==
    /\ IsGeoCleaner
    /\ pc = "duplicates"
    /\ Len(clean_df.rows) # 0
    /\ ret' = <<GroupByName(clean_df)>>
    /\ pc' = "merged"
    /\ UNCHANGED <<raised, fn, arg, clean_df, warnings, searchVars, featureVars, runnerVars>>

NextGeo == GeoConvert \/ GeoCoalesce \/ GeoSelect \/ GeoPassThrough \/ GeoMerge

SpecGeo == InitGeo /\ [][NextGeo]_vars

-----------------------------------------------------------------------------
(* Properties of the geodata cleaners *)

\* The rows of the location table that carry a name
RowsNamed(name) == {k \in 1..Len(clean_df.rows) : clean_df.rows[k]["name"] = <<name>>}

RECURSIVE SumOver(_, _)
SumOver(indices, column) ==
    IF indices = {} THEN 0
    ELSE LET k == CHOOSE k \in indices : TRUE
         IN  clean_df.rows[k][column][1] + SumOver(indices \ {k}, column)

\* C14: the merge of a non-empty location table has exactly one row for
\* each distinct name of the table and no other row, and that row's
\* latitude and longitude are the arithmetic means over the table's rows
\* of that name.
C14_DuplicateMerge ==
    (IsGeoCleaner /\ pc = "merged") =>
        LET out == ret[1].rows
        IN  /\ clean_df.rows # <<>>
            /\ \A k \in 1..Len(clean_df.rows) :
                  \E o \in 1..Len(out) : out[o]["name"] = clean_df.rows[k]["name"]
            /\ \A o, q \in 1..Len(out) : out[o]["name"] = out[q]["name"] => o = q
            /\ \A o \in 1..Len(out) :
                  LET group == RowsNamed(out[o]["name"][1])
                  IN  /\ group # {}
                      /\ out[o]["latitude"][1] * Cardinality(group)
                            = SumOver(group, "latitude") * MeanScale
                      /\ out[o]["longitude"][1] * Cardinality(group)
                            = SumOver(group, "longitude") * MeanScale

\* C14 witness: two rows named Bishan with different positions were merged
\* into one, beside a row of another name
C14_Witness ==
    /\ IsGeoCleaner
    /\ pc = "merged"
    /\ Len(clean_df.rows) = 3
    /\ Len(ret[1].rows) = 2
    /\ \E i, j \in 1..3 :
          /\ i # j
          /\ clean_df.rows[i]["name"] = <<"Bishan">>
          /\ clean_df.rows[j]["name"] = <<"Bishan">>
          /\ clean_df.rows[i]["latitude"] # clean_df.rows[j]["latitude"]

\* An element with a name and a position of either form
IsComplete(element) ==
    /\ element.name # <<>>
    /\ element.lat # <<>> \/ element.center_lat # <<>>
    /\ element.lon # <<>> \/ element.center_lon # <<>>

\* C15: for every document the cleaner does not raise; after coalescing,
\* each element's latitude is its lat when it has one and its center.lat
\* otherwise, likewise the longitude; after the dropna the table holds the
\* elements that have a name and a position, and no other.
C15_CoordinateCoalescing ==
    IsGeoCleaner =>
        /\ pc # "error"
        /\ raised = "none"
        /\ pc = "select" =>
              /\ Len(clean_df.rows) = Len(arg[1])
              /\ \A k \in 1..Len(arg[1]) :
                    LET element == arg[1][k]
                    IN  /\ clean_df.rows[k]["latitude"] =
                              IF element.lat # <<>> THEN element.lat ELSE element.center_lat
                        /\ clean_df.rows[k]["longitude"] =
                              IF element.lon # <<>> THEN element.lon ELSE element.center_lon
        /\ pc \in {"duplicates", "passed", "merged"} =>
              /\ Len(clean_df.rows) =
                    Cardinality({k \in 1..Len(arg[1]) : IsComplete(arg[1][k])})
              /\ \A r \in 1..Len(clean_df.rows) :
                    \E k \in 1..Len(arg[1]) :
                        /\ IsComplete(arg[1][k])
                        /\ clean_df.rows[r]["name"] = arg[1][k].name

\* C16: when the document has no element, or none with a name and a
\* position, the cleaner does not raise and does not merge, and what it
\* returns is an empty location table.
C16_EmptyGeodataPassesThrough ==
    (IsGeoCleaner /\ \A k \in 1..Len(arg[1]) : ~IsComplete(arg[1][k])) =>
        /\ pc \notin {"error", "merged"}
        /\ raised = "none"
        /\ pc = "passed" => ret = <<[columns |-> LocationColumns, rows |-> <<>>]>>

-----------------------------------------------------------------------------
(* Properties of the table cleaners *)

\* The rows of a table at a set of positions, in the table's order
RECURSIVE RowsAt(_, _, _)
RowsAt(rows, positions, k) ==
    IF k > Len(rows) THEN <<>>
    ELSE (IF k \in positions THEN <<rows[k]>> ELSE <<>>) \o RowsAt(rows, positions, k + 1)

\* Row k of the address table has type "address" and confidence >= 0.8
PassesFilter(rows, k) ==
    /\ rows[k]["type"] = "address"
    /\ rows[k]["confidence"] # <<>>
    /\ rows[k]["confidence"][1] >= GEOCODING_CONFIDENCE_THRESHOLD

SameAddress(a, b) == a["block"] = b["block"] /\ a["street_name"] = b["street_name"]

\* C17: clean_hdb_address_geodata returns, in input order, exactly the rows
\* with type "address" and confidence >= 0.8 that are the first such row of
\* their (block, street_name); no two returned rows share that pair.
C17_AddressFilter ==
    (fn = "clean_hdb_address_geodata" /\ pc # "call"
        /\ arg[1].columns = AddressColumns) =>
        LET rows == arg[1].rows
            first == {k \in 1..Len(rows) :
                         /\ PassesFilter(rows, k)
                         /\ \A j \in 1..(k - 1) :
                               PassesFilter(rows, j) => ~SameAddress(rows[j], rows[k])}
        IN  /\ raised = "none"
            /\ ret = <<[columns |-> AddressColumns, rows |-> RowsAt(rows, first, 1)]>>
            /\ \A i, j \in 1..Len(ret[1].rows) :
                  SameAddress(ret[1].rows[i], ret[1].rows[j]) => i = j

\* C17 witness: of three rows of one address the first fails the filter
\* and the second and third pass it; the second is returned
C17_Witness ==
    /\ fn = "clean_hdb_address_geodata"
    /\ pc = "done"
    /\ arg[1].columns = AddressColumns
    /\ Len(arg[1].rows) = 3
    /\ \A k \in 1..3 : SameAddress(arg[1].rows[k], arg[1].rows[1])
    /\ ~PassesFilter(arg[1].rows, 1)
    /\ PassesFilter(arg[1].rows, 2)
    /\ PassesFilter(arg[1].rows, 3)
    /\ arg[1].rows[2] # arg[1].rows[3]
    /\ ret[1].rows = <<arg[1].rows[2]>>

\* The number of whitespace-separated tokens of a text
TokensOf(chars) ==
    Cardinality({i \in 1..Len(chars) :
                    ~IsSpace(chars[i]) /\ (i = 1 \/ IsSpace(chars[i - 1]))})

\* C18: clean_mrt_stations returns, in input order, exactly the rows whose
\* Opening is a date written as MM/DD/YYYY, and the line_count of each is
\* the number of whitespace-separated tokens of its Code.
C18_StationCleaner ==
    (fn = "clean_mrt_stations" /\ pc # "call") =>
        LET kept == RowsAt(arg[1], {k \in 1..Len(arg[1]) :
                                      arg[1][k].Opening \in DateOpenings}, 1)
        IN  /\ raised = "none"
            /\ Len(ret) = 1
            /\ Len(ret[1]) = Len(kept)
            /\ \A k \in 1..Len(kept) :
                  /\ ret[1][k].Opening = kept[k].Opening
                  /\ ret[1][k].Code = kept[k].Code
                  /\ ret[1][k].line_count = TokensOf(kept[k].Code.chars)

-----------------------------------------------------------------------------
(* The extract stage (extract/nodes.py).                                   *)
(* A raw table is [columns, rows]; the rows are numbered, their cells play *)
(* no part. An outcome carries the warnings that were logged.              *)

Outcome(exception, value, logged) ==
    [raised |-> exception, value |-> value, warnings |-> logged]

\* df.empty: no row or no column
IsEmptyTable(table) == table.columns = {} \/ table.rows = <<>>

\* _validate_expected_columns (extract/nodes.py 158-164): the warnings it
\* logs, naming the missing columns in the order of expected_columns
ValidateExpectedColumns(data, expected_columns, dataset_name) ==
    LET missing_columns == SelectSeq(expected_columns, LAMBDA col : col \notin data.columns)
    IN  IF missing_columns # <<>>
        THEN <<[dataset_name |-> dataset_name, missing_columns |-> missing_columns]>>
        ELSE <<>>

\* Mutant: a missing expected column is an error
ExtractTableRequireColumns(table, expected_columns, dataset_name) ==
    IF IsEmptyTable(table) THEN Outcome("ValueError", <<>>, <<>>)
    ELSE IF ValidateExpectedColumns(table, expected_columns, dataset_name) # <<>>
    THEN Outcome("ValueError", <<>>, <<>>)
    ELSE Outcome("none", <<table>>, <<>>)

\* The common body of extract_hdb_resale_prices, extract_mrt_stations and
\* extract_hdb_address_geodata
ExtractTable(table, expected_columns, dataset_name) ==
    IF IsEmptyTable(table) THEN Outcome("ValueError", <<>>, <<>>)
    ELSE Outcome("none", <<table>>,
                 ValidateExpectedColumns(table, expected_columns, dataset_name))

\* The expected columns and the dataset name of each tabular extractor
TableExtractors ==
    [extract_hdb_resale_prices |->
        [expected_columns |-> <<"town", "resale_price", "flat_type", "floor_area_sqm">>,
         dataset_name |-> "HDB resale prices"],
     extract_mrt_stations |->
        [expected_columns |-> <<"Name", "Line", "Code">>,
         dataset_name |-> "MRT stations"],
     extract_hdb_address_geodata |->
        [expected_columns |-> <<"latitude", "longitude">>,
         dataset_name |-> "HDB address geodata"]]

Range(seq) == {seq[k] : k \in 1..Len(seq)}

\* Raw tables for an extractor: any of its expected columns, with or
\* without another column, and up to MaxExtractRows rows
RawTables(extractor) ==
    { [columns |-> cols, rows |-> [k \in 1..n |-> k]] :
        cols \in SUBSET (Range(TableExtractors[extractor].expected_columns) \cup {"id"}),
        n \in 0..MaxExtractRows }

(* A response is [status_code, body]. A body is [kind, keys, elements]:    *)
(* kind "invalid" for a text that is not JSON, otherwise the kind of the   *)
(* parsed value; keys are the keys of an object; elements is the value of  *)
(* its elements key, [kind, items].                                        *)

NoElements == [kind |-> "absent", items |-> <<>>]

Body(kind, keys, elements) == [kind |-> kind, keys |-> keys, elements |-> elements]

Response(status_code, body) == [status_code |-> status_code, body |-> body]

\* element.get("type", "unknown") of an object
TypeOf(element) == IF element.type = "" THEN "unknown" ELSE element.type

\* mall_types after the loop over the elements (extract/nodes.py 115-118)
MallTypes(items) ==
    [t \in {TypeOf(items[k]) : k \in 1..Len(items)} |->
        Cardinality({k \in 1..Len(items) : TypeOf(items[k]) = t})]

\* The warning about the number of elements, if any
CountWarning(n, minimum, dataset_name) ==
    IF n = 0 THEN <<[dataset_name |-> dataset_name, warning |-> "no data found"]>>
    ELSE IF n < minimum THEN <<[dataset_name |-> dataset_name, warning |-> "seems low"]>>
    ELSE <<>>

\* extract_mrt_geodata (extract/nodes.py 39-81). len(elements) of a value
\* that is no array raises TypeError, which except Exception re-raises.
ExtractMrtGeodata(response, now) ==
    LET data == response.body
    IN  IF response.status_code # 200 THEN Outcome("ValueError", <<>>, <<>>)
        ELSE IF data.kind = "invalid" THEN Outcome("ValueError", <<>>, <<>>)
        ELSE IF data.kind # "object" THEN Outcome("ValueError", <<>>, <<>>)
        ELSE IF "elements" \notin data.keys THEN Outcome("ValueError", <<>>, <<>>)
        ELSE IF data.elements.kind # "array" THEN Outcome("TypeError", <<>>, <<>>)
        ELSE LET elements == data.elements.items
             IN  Outcome("none",
                         <<[keys |-> data.keys \cup {"extraction_metadata"},
                            elements |-> data.elements,
                            extraction_metadata |->
                               [extracted_at |-> now,
                                source |-> "Overpass API",
                                record_count |-> Len(elements),
                                status_code |-> response.status_code]]>>,
                         CountWarning(Len(elements), 50, "MRT station"))

\* extract_mall_geodata (extract/nodes.py 84-138). element.get of an
\* element that is no object raises AttributeError.
ExtractMallGeodata(response, now) ==
    LET data == response.body
    IN  IF response.status_code # 200 THEN Outcome("ValueError", <<>>, <<>>)
        ELSE IF data.kind = "invalid" THEN Outcome("ValueError", <<>>, <<>>)
        ELSE IF data.kind # "object" THEN Outcome("ValueError", <<>>, <<>>)
        ELSE IF "elements" \notin data.keys THEN Outcome("ValueError", <<>>, <<>>)
        ELSE IF data.elements.kind # "array" THEN Outcome("TypeError", <<>>, <<>>)
        ELSE LET elements == data.elements.items
             IN  IF \E k \in 1..Len(elements) : elements[k].kind # "object"
                 THEN Outcome("AttributeError", <<>>,
                              CountWarning(Len(elements), 10, "shopping mall"))
                 ELSE Outcome("none",
                         <<[keys |-> data.keys \cup {"extraction_metadata"},
                            elements |-> data.elements,
                            extraction_metadata |->
                               [extracted_at |-> now,
                                source |-> "Overpass API",
                                record_count |-> Len(elements),
                                status_code |-> response.status_code,
                                element_types |-> MallTypes(elements)]]>>,
                         CountWarning(Len(elements), 10, "shopping mall"))

\* Elements of a document: objects with and without a type, and a value
\* that is no object
DocElements ==
    { [kind |-> "object", type |-> "node"], [kind |-> "object", type |-> "way"],
      [kind |-> "object", type |-> ""], [kind |-> "number", type |-> ""] }

Bodies ==
    { Body("invalid", {}, NoElements), Body("array", {}, NoElements),
      Body("null", {}, NoElements), Body("object", {"version"}, NoElements),
      Body("object", {"version", "elements"}, [kind |-> "null", items |-> <<>>]) }
    \cup { Body("object", {"version", "elements"}, [kind |-> "array", items |-> items]) :
             items \in SeqsUpTo(DocElements, MaxDocElements) }

Responses == {Response(code, body) : code \in {200, 404, 500}, body \in Bodies}

\* The values of datetime.now().isoformat()
Clock == {"2025-01-01T00:00:00", "2025-01-01T00:00:01"}

InitExtract ==
    /\ pc = "call"
    /\ raised = "none"
    /\ ret = <<>>
    /\ \/ \E extractor \in DOMAIN TableExtractors :
             fn = extractor /\ arg \in {<<t>> : t \in RawTables(extractor)}
       \/ fn \in {"extract_mrt_geodata", "extract_mall_geodata"}
          /\ arg \in {<<r>> : r \in Responses}
    /\ clean_df = NoTable
    /\ warnings = <<>>
    /\ workers = <<>>
    /\ catalog = {}
    /\ running = {}
    /\ executed = <<>>
    /\ step = "idle"
    /\ hdb_addresses = <<>>
    /\ locations = <<>>
    /\ location_type = ""
    /\ distances = <<>>
    /\ result_df = NoTable
    /\ hdb_resale_prices = <<>>
    /\ mrt_stations = <<>>
    /\ mrt_geodata = <<>>
    /\ mall_geodata = <<>>
    /\ operational_mrt = <<>>
    /\ mrt_distances = NoTable
    /\ mall_distances = NoTable
    /\ address_features = NoTable
    /\ feature_set = NoTable

\* The end of an extractor's call with an outcome
Finish(outcome) ==
    /\ raised' = outcome.raised
    /\ ret' = outcome.value
    /\ warnings' = outcome.warnings
    /\ pc' = IF outcome.raised = "none" THEN "done" ELSE "error"
    /\ UNCHANGED <<fn, arg, clean_df, searchVars, featureVars, runnerVars>>

\* extract_hdb_resale_prices, extract_mrt_stations, extract_hdb_address_geodata
ExtractTabular ==
    /\ fn \in DOMAIN TableExtractors
    /\ pc = "call"
    /\ Finish(ExtractTable(arg[1], TableExtractors[fn].expected_columns,
                           TableExtractors[fn].dataset_name))

ExtractMrt ==
    /\ fn = "extract_mrt_geodata"
    /\ pc = "call"
    /\ \E now \in Clock : Finish(ExtractMrtGeodata(arg[1], now))

ExtractMall ==
    /\ fn = "extract_mall_geodata"
    /\ pc = "call"
    /\ \E now \in Clock : Finish(ExtractMallGeodata(arg[1], now))

NextExtract == ExtractTabular \/ ExtractMrt \/ ExtractMall

SpecExtract == InitExtract /\ [][NextExtract]_vars

-----------------------------------------------------------------------------
(* Properties of the extractors *)

\* C19: a tabular extractor raises an error for an empty table (no row, or
\* no column) and returns nothing; for every other table it returns the
\* table unchanged, also when expected columns are missing, which is
\* logged as a warning and is no error.
C19_TabularExtractors ==
    (fn \in DOMAIN TableExtractors /\ pc # "call") =>
        LET table == arg[1]
            expected == Range(TableExtractors[fn].expected_columns)
        IN  IF table.rows = <<>> \/ table.columns = {}
            THEN pc = "error" /\ raised = "ValueError" /\ ret = <<>>
            ELSE /\ pc = "done"
                 /\ raised = "none"
                 /\ ret = <<table>>
                 /\ (warnings # <<>>) <=> ~(expected \subseteq table.columns)
                 /\ \A w \in 1..Len(warnings) :
                       Range(warnings[w].missing_columns) = expected \ table.columns

\* C19 witness: a table with rows and none of the expected columns was
\* returned as it is, with a warning
C19_Witness ==
    /\ fn = "extract_hdb_resale_prices"
    /\ pc = "done"
    /\ arg[1].columns = {"id"}
    /\ Len(arg[1].rows) = 2
    /\ ret = arg
    /\ Len(warnings) = 1

\* C20: a geodata extractor ends in an error and returns no document when
\* the status is not 200, the body is not JSON, the parsed body is no
\* object or it has no elements key; in every other case it returns the
\* document with its elements unchanged and extraction metadata whose
\* record_count is the number of elements.
C20_GeodataExtractors ==
    (fn \in {"extract_mrt_geodata", "extract_mall_geodata"} /\ pc # "call") =>
        LET response == arg[1]
            failed == \/ response.status_code # 200
                      \/ response.body.kind # "object"
                      \/ "elements" \notin response.body.keys
        IN  IF failed
            THEN pc = "error" /\ raised # "none" /\ ret = <<>>
            ELSE /\ pc = "done"
                 /\ raised = "none"
                 /\ ret[1].elements = response.body.elements
                 /\ ret[1].extraction_metadata.record_count
                       = Len(response.body.elements.items)

-----------------------------------------------------------------------------
(* Properties across the stages *)

\* C21, as claimed: no step of a cleaner or of create_feature_set changes a
\* table or document that was passed in: the argument of the cleaner and the
\* five arguments of create_feature_set keep their columns and cell values.
C21_NoInPlaceMutation ==
    [][ /\ arg' = arg
        /\ hdb_resale_prices' = hdb_resale_prices
        /\ hdb_addresses' = hdb_addresses
        /\ mrt_stations' = mrt_stations
        /\ mrt_geodata' = mrt_geodata
        /\ mall_geodata' = mall_geodata ]_vars

-----------------------------------------------------------------------------
(* The distance function on its own: distance(a, b), then distance(b, a),  *)
(* then distance(a, a), by either variant.                                 *)

\* Latitudes in [-90, 90] and longitudes in [-180, 180], in even degrees so
\* that half of a difference is a whole degree
Latitudes == {-90, -60, -2, 0, 2, 60, 90}

Longitudes == {-180, -90, 0, 2, 104, 180}

Points == {<<lat, lon>> : lat \in Latitudes, lon \in Longitudes}

InitDistance ==
    /\ fn \in {"_calculate_distance_km", "calculate_distance_km"}
    /\ pc = "call"
    /\ raised = "none"
    /\ arg \in {<<a, b>> : a \in Points, b \in Points}
    /\ ret = <<>>
    /\ clean_df = NoTable
    /\ warnings = <<>>
    /\ workers = <<>>
    /\ catalog = {}
    /\ running = {}
    /\ executed = <<>>
    /\ step = "idle"
    /\ hdb_addresses = <<>>
    /\ locations = <<>>
    /\ location_type = ""
    /\ distances = <<>>
    /\ result_df = NoTable
    /\ hdb_resale_prices = <<>>
    /\ mrt_stations = <<>>
    /\ mrt_geodata = <<>>
    /\ mall_geodata = <<>>
    /\ operational_mrt = <<>>
    /\ mrt_distances = NoTable
    /\ mall_distances = NoTable
    /\ address_features = NoTable
    /\ feature_set = NoTable

\* The three calls, in order: (a, b), (b, a), (a, a)
DistanceCalls == << <<arg[1], arg[2]>>, <<arg[2], arg[1]>>, <<arg[1], arg[1]>> >>

\* One call of the variant under test; its result is appended to ret
ApplyCalculateDistanceKm ==
    /\ fn \in {"_calculate_distance_km", "calculate_distance_km"}
    /\ pc = "call"
    /\ Len(ret) < Len(DistanceCalls)
    /\ LET p == DistanceCalls[Len(ret) + 1][1]
           q == DistanceCalls[Len(ret) + 1][2]
           d == IF fn = "calculate_distance_km"
                THEN CalculateDistanceKmUtil(Some(p[1]), Some(p[2]), Some(q[1]), Some(q[2]))
                ELSE CalculateDistanceKmNode(Some(p[1]), Some(p[2]), Some(q[1]), Some(q[2]))
       IN  /\ ret' = Append(ret, d)
           /\ pc' = IF Len(ret) + 1 = Len(DistanceCalls) THEN "done" ELSE "call"
    /\ UNCHANGED <<raised, fn, arg, clean_df, warnings, searchVars, featureVars, runnerVars>>

NextDistance == ApplyCalculateDistanceKm

SpecDistance == InitDistance /\ [][NextDistance]_vars

\* C22: for points a, b with latitude in [-90, 90] and longitude in
\* [-180, 180], distance(a, b) equals distance(b, a), distance(a, a) is 0,
\* and every computed distance is a number that is not negative.
C22_HaversineSymmetric ==
    /\ \A k \in 1..Len(ret) : ~IsNaN(ret[k]) /\ Val(ret[k]) >= 0
    /\ Len(ret) >= 2 => ret[2] = ret[1]
    /\ Len(ret) >= 3 => ret[3] = Some(0)

\* C22 witness: all three calls were made for two points that differ in
\* latitude and in longitude and are a positive distance apart
C22_Witness ==
    /\ pc = "done"
    /\ Len(ret) = 3
    /\ arg[1][1] # arg[2][1]
    /\ arg[1][2] # arg[2][2]
    /\ Val(ret[1]) > 0
    /\ ret[2] = ret[1]

-----------------------------------------------------------------------------
(* The search run by several workers. Each worker takes a source row that  *)
(* nobody has taken, runs the body of the outer loop on it with its own    *)
(* local variables and writes the result dict into the slot of that row.   *)
(* distances is here a sequence of slots: <<>> is an empty slot, <<d>> a   *)
(* slot that holds the dict d.                                             *)

WorkerIds == 1..MaxWorkers

\* The local variables of a worker that holds no row
IdleWorker == [pc |-> "idle", row |-> 0, location_distances |-> <<>>]

WorkerSourceRows ==
    { Address("101", "ANG MO KIO AVE 1", Some(0), Some(0)),
      Address("102", "BEDOK NTH ST 2", Some(30), Some(30)),
      Address("103", "BEDOK NTH ST 2", NaN, NaN) }

WorkerTargetRows ==
    { Location("Bishan", Some(0), Some(30)), Location("Tampines", Some(30), Some(0)) }

\* The inner loop of the variant that was called
LocationDistancesOf(variant, hdb, locs) ==
    IF variant = "find_nearest_locations"
    THEN LocationDistancesUtil(hdb, locs)
    ELSE LocationDistancesNode(hdb, locs)

\* The sequential loop as a whole (nodes.py 38-67, geo_utils.py 76-104):
\* ValueError in the first pass when there is no target, KeyError at the
\* log line when there is no source row, otherwise one dict per source row
SequentialLoop(variant, sources, locs, label) ==
    IF sources # <<>> /\ locs = <<>> THEN Raised("ValueError")
    ELSE IF sources = <<>> THEN Raised("KeyError")
    ELSE Returned(<<[k \in 1..Len(sources) |->
             ResultDict(sources[k], label,
                        PyMin(LocationDistancesOf(variant, sources[k], locs)))]>>)

\* Mutant: one list of distances shared by all workers
ScratchShared(w) == workers[1].location_distances

\* location_distances = [] inside the outer loop (nodes.py 44,
\* geo_utils.py 82): every pass has a list of its own
Scratch(w) == workers[w].location_distances

InitWorkers ==
    /\ fn \in {"_find_nearest_locations", "find_nearest_locations"}
    /\ pc = "loop"
    /\ raised = "none"
    /\ hdb_addresses \in SeqsUpTo(WorkerSourceRows, MaxSources)
    /\ locations \in SeqsUpTo(WorkerTargetRows, MaxTargets)
    /\ location_type = "mrt"
    /\ distances = [k \in 1..Len(hdb_addresses) |-> <<>>]
    /\ result_df = NoTable
    /\ workers = [w \in WorkerIds |-> IdleWorker]
    /\ step = "idle"
    /\ hdb_resale_prices = <<>>
    /\ mrt_stations = <<>>
    /\ mrt_geodata = <<>>
    /\ mall_geodata = <<>>
    /\ operational_mrt = <<>>
    /\ mrt_distances = NoTable
    /\ mall_distances = NoTable
    /\ address_features = NoTable
    /\ feature_set = NoTable
    /\ arg = <<>>
    /\ ret = <<>>
    /\ clean_df = NoTable
    /\ warnings = <<>>
    /\ catalog = {}
    /\ running = {}
    /\ executed = <<>>

\* A worker takes a source row whose slot is empty and that no worker holds
WorkerTake(w) ==
    /\ pc = "loop"
    /\ workers[w].pc = "idle"
    /\ \E k \in 1..Len(hdb_addresses) :
          /\ distances[k] = <<>>
          /\ \A v \in WorkerIds : workers[v].row # k
          /\ workers' = [workers EXCEPT ![w] = [pc |-> "row", row |-> k,
                                                location_distances |-> <<>>]]
    /\ UNCHANGED <<pc, raised, fn, searchVars, featureVars, arg, ret, clean_df,
                   warnings, catalog, running, executed>>

\* The inner loop over the targets (nodes.py 44-53, geo_utils.py 82-88)
WorkerMeasure(w) ==
    /\ pc = "loop"
    /\ workers[w].pc = "row"
    /\ workers' = [workers EXCEPT ![w] =
            [pc |-> "measured", row |-> workers[w].row,
             location_distances |->
                LocationDistancesOf(fn, hdb_addresses[workers[w].row], locations)]]
    /\ UNCHANGED <<pc, raised, fn, searchVars, featureVars, arg, ret, clean_df,
                   warnings, catalog, running, executed>>

\* min() and the result dict (nodes.py 56-62, geo_utils.py 91-98), written
\* to the slot of the worker's row; min() of an empty list raises ValueError
WorkerWrite(w) ==
    /\ pc = "loop"
    /\ workers[w].pc = "measured"
    /\ IF Scratch(w) = <<>>
       THEN /\ raised' = "ValueError"
            /\ pc' = "error"
            /\ UNCHANGED <<distances, workers>>
       ELSE /\ distances' = [distances EXCEPT ![workers[w].row] =
                    <<ResultDict(hdb_addresses[workers[w].row], location_type,
                                 PyMin(Scratch(w)))>>]
            /\ workers' = [workers EXCEPT ![w] = IdleWorker]
            /\ UNCHANGED <<pc, raised>>
    /\ UNCHANGED <<fn, hdb_addresses, locations, location_type, result_df,
                   featureVars, arg, ret, clean_df, warnings, catalog, running,
                   executed>>

\* When every slot is filled the frame is built and its mean distance is
\* logged (nodes.py 64-67, geo_utils.py 100-104)
WorkersReturn ==
    /\ pc = "loop"
    /\ \A k \in 1..Len(distances) : distances[k] # <<>>
    /\ LET df == DataFrameOf([k \in 1..Len(distances) |-> distances[k][1]])
       IN  IF DistCol(location_type) \notin df.columns
           THEN /\ raised' = "KeyError"
                /\ pc' = "error"
                /\ UNCHANGED result_df
           ELSE /\ result_df' = df
                /\ pc' = "done"
                /\ UNCHANGED raised
    /\ UNCHANGED <<fn, hdb_addresses, locations, location_type, distances,
                   featureVars, parserVars, workers, catalog, running, executed>>

NextWorkers ==
    \/ \E w \in WorkerIds : WorkerTake(w)
    \/ \E w \in WorkerIds : WorkerMeasure(w)
    \/ \E w \in WorkerIds : WorkerWrite(w)
    \/ WorkersReturn

SpecWorkers == InitWorkers /\ [][NextWorkers]_vars

\* C23: whatever the order in which the workers take and finish the source
\* rows, the row written for source row k is the one the sequential loop
\* produces for it, the returned frame holds the same set of rows as the
\* sequential loop's, a failure is the sequential loop's failure, and no
\* step changes the target table or the source table.
C23_RowIndependence ==
    /\ [] LET sequential == SequentialLoop(fn, hdb_addresses, locations, location_type)
          IN  /\ \A k \in 1..Len(distances) :
                    distances[k] # <<>> =>
                        /\ sequential.raised = "none"
                        /\ distances[k][1] = sequential.value[1][k]
              /\ pc = "done" =>
                    /\ sequential.raised = "none"
                    /\ Len(result_df.rows) = Len(sequential.value[1])
                    /\ Range(result_df.rows) = Range(sequential.value[1])
              /\ pc = "error" => raised = sequential.raised
    /\ [][locations' = locations /\ hdb_addresses' = hdb_addresses]_vars

\* C23 witness: the second source row has been written while the first is
\* still held by another worker that has measured its distances
C23_Witness ==
    /\ pc = "loop"
    /\ Len(hdb_addresses) = 2
    /\ hdb_addresses[1] # hdb_addresses[2]
    /\ Len(locations) = 2
    /\ distances[1] = <<>>
    /\ distances[2] # <<>>
    /\ \E w \in WorkerIds : workers[w].row = 1 /\ workers[w].pc = "measured"

-----------------------------------------------------------------------------
(* The node graph declared by the four create_pipeline functions, and a    *)
(* run of it: a node starts only when all its inputs exist, runs once, and *)
(* a node that fails ends the run. Several nodes may run at a time.        *)

\* Node(func=..., inputs=..., outputs=..., name=...)
Node(name, inputs, outputs) == [name |-> name, inputs |-> inputs, outputs |-> outputs]

\* extract/pipeline.py
ExtractPipeline ==
    { Node("extract_hdb_resale_prices_node",
           {"source_hdb_resale_prices"}, {"staging_hdb_resale_prices"}),
      Node("extract_mrt_stations_node",
           {"source_mrt_stations"}, {"staging_mrt_stations"}),
      Node("extract_mrt_geodata_node",
           {"source_mrt_geodata"}, {"staging_mrt_geodata"}),
      Node("extract_mall_geodata_node",
           {"source_mall_geodata"}, {"staging_mall_geodata"}),
      Node("extract_hdb_address_geodata_node",
           {"source_hdb_address_geodata"}, {"staging_hdb_address_geodata"}) }

\* Mutant: the station cleaner reads the source table, not the staged one
CleanPipelineReadsSource ==
    { Node("clean_hdb_resale_prices_node",
           {"staging_hdb_resale_prices"}, {"clean_hdb_resale_prices"}),
      Node("clean_mrt_stations_node",
           {"source_mrt_stations"}, {"clean_mrt_stations"}),
      Node("clean_mrt_geodata_node",
           {"staging_mrt_geodata"}, {"clean_mrt_geodata"}),
      Node("clean_mall_geodata_node",
           {"staging_mall_geodata"}, {"clean_mall_geodata"}),
      Node("clean_hdb_address_geodata_node",
           {"staging_hdb_address_geodata"}, {"clean_hdb_address_geodata"}) }

\* clean/pipeline.py
CleanPipeline ==
    { Node("clean_hdb_resale_prices_node",
           {"staging_hdb_resale_prices"}, {"clean_hdb_resale_prices"}),
      Node("clean_mrt_stations_node",
           {"staging_mrt_stations"}, {"clean_mrt_stations"}),
      Node("clean_mrt_geodata_node",
           {"staging_mrt_geodata"}, {"clean_mrt_geodata"}),
      Node("clean_mall_geodata_node",
           {"staging_mall_geodata"}, {"clean_mall_geodata"}),
      Node("clean_hdb_address_geodata_node",
           {"staging_hdb_address_geodata"}, {"clean_hdb_address_geodata"}) }

\* transform/pipeline.py
TransformPipeline ==
    { Node("create_feature_set_node",
           {"clean_hdb_resale_prices", "clean_hdb_address_geodata",
            "clean_mrt_stations", "clean_mrt_geodata", "clean_mall_geodata"},
           {"transformed_feature_set"}) }

\* model/pipeline.py
ModelPipeline ==
    { Node("train_linear_regression_node",
           {"transformed_feature_set"}, {"linear_regression_model", "model_info"}),
      Node("evaluate_model_performance_node",
           {"model_info"}, {"model_performance_report"}),
      Node("create_model_plots_node",
           {"linear_regression_model", "transformed_feature_set"}, {"model_plots"}) }

\* The nodes of a run of all four pipelines
Nodes == ExtractPipeline \cup CleanPipeline \cup TransformPipeline \cup ModelPipeline

NodeNames == {n.name : n \in Nodes}

\* The nodes that produce a dataset
ProducersOf(dataset) == {n \in Nodes : dataset \in n.outputs}

\* The datasets no node produces: they exist before the run
FreeInputs == {d \in UNION {n.inputs : n \in Nodes} : ProducersOf(d) = {}}

InitRun ==
    /\ fn = "run"
    /\ pc = "run"
    /\ raised = "none"
    /\ catalog = FreeInputs
    /\ running = {}
    /\ executed = [name \in NodeNames |-> 0]
    /\ workers = <<>>
    /\ hdb_addresses = <<>>
    /\ locations = <<>>
    /\ location_type = ""
    /\ distances = <<>>
    /\ result_df = NoTable
    /\ step = "idle"
    /\ hdb_resale_prices = <<>>
    /\ mrt_stations = <<>>
    /\ mrt_geodata = <<>>
    /\ mall_geodata = <<>>
    /\ operational_mrt = <<>>
    /\ mrt_distances = NoTable
    /\ mall_distances = NoTable
    /\ address_features = NoTable
    /\ feature_set = NoTable
    /\ arg = <<>>
    /\ ret = <<>>
    /\ clean_df = NoTable
    /\ warnings = <<>>

\* A node starts: it has not run, and all its inputs exist
NodeStart(n) ==
    /\ pc = "run"
    /\ n.name \notin running
    /\ executed[n.name] = 0
    /\ n.inputs \subseteq catalog
    /\ running' = running \cup {n.name}
    /\ UNCHANGED <<pc, raised, fn, catalog, executed, workers, searchVars,
                   featureVars, parserVars>>

\* A running node returns: its outputs exist from now on
NodeFinish(n) ==
    /\ pc = "run"
    /\ n.name \in running
    /\ running' = running \ {n.name}
    /\ catalog' = catalog \cup n.outputs
    /\ executed' = [executed EXCEPT ![n.name] = @ + 1]
    /\ UNCHANGED <<pc, raised, fn, workers, searchVars, featureVars, parserVars>>

\* A running node raises: the run ends
NodeFail(n) ==
    /\ pc = "run"
    /\ n.name \in running
    /\ raised' = "Exception"
    /\ pc' = "failed"
    /\ UNCHANGED <<fn, catalog, running, executed, workers, searchVars,
                   featureVars, parserVars>>

\* Every node has run: the run completes
RunReturn ==
    /\ pc = "run"
    /\ \A name \in NodeNames : executed[name] > 0
    /\ pc' = "done"
    /\ UNCHANGED <<raised, fn, catalog, running, executed, workers, searchVars,
                   featureVars, parserVars>>

NextRun ==
    \/ \E n \in Nodes : NodeStart(n)
    \/ \E n \in Nodes : NodeFinish(n)
    \/ \E n \in Nodes : NodeFail(n)
    \/ RunReturn

\* The runner goes on starting nodes that can start, a node that does not
\* fail returns, and the run returns when every node has run
SpecRun ==
    /\ InitRun
    /\ [][NextRun]_vars
    /\ WF_vars(\E n \in Nodes : NodeStart(n))
    /\ \A n \in Nodes : WF_vars(NodeFinish(n) \/ NodeFail(n))
    /\ WF_vars(RunReturn)

\* The nodes that produce an input of one of the nodes of S
Upstream(S) == UNION {ProducersOf(d) : d \in UNION {n.inputs : n \in S}}

\* S and every node upstream of it, at any distance
RECURSIVE Ancestors(_)
Ancestors(S) ==
    LET T == S \cup Upstream(S)
    IN  IF T = S THEN S ELSE Ancestors(T)

\* No node is upstream of itself
Acyclic == \A n \in Nodes : n \notin Ancestors(Upstream({n}))

Started(name) == name \in running \/ executed[name] > 0

Finished(name) == name \notin running /\ executed[name] = 1

\* C25: every dataset a clean node consumes is produced by exactly one
\* extract node and every dataset the transform node consumes by exactly one
\* clean node; the graph is acyclic; in a run that starts a node only when
\* its inputs exist, create_feature_set_node has started only if all five
\* clean nodes have finished, a clean node has started only if the extract
\* node that produces its input has finished, no node runs twice, a
\* completed run has run every node exactly once, and a run in which no node
\* fails eventually completes.
C25_StageOrder ==
    /\ [] ( /\ \A c \in CleanPipeline : \A d \in c.inputs :
                  \E e \in ExtractPipeline : ProducersOf(d) = {e}
            /\ \A t \in TransformPipeline : \A d \in t.inputs :
                  \E c \in CleanPipeline : ProducersOf(d) = {c}
            /\ Acyclic
            /\ \A t \in TransformPipeline :
                  Started(t.name) => \A c \in CleanPipeline : Finished(c.name)
            /\ \A c \in CleanPipeline :
                  Started(c.name) =>
                      \A e \in ExtractPipeline :
                          e.outputs \cap c.inputs # {} => Finished(e.name)
            /\ \A name \in NodeNames : executed[name] <= 1
            /\ pc = "done" =>
                  running = {} /\ \A name \in NodeNames : executed[name] = 1 )
    /\ <>(pc = "failed" \/ pc = "done")

\* C25 witness: the run has completed, every node has run once, and every
\* dataset exists
C25_Witness ==
    /\ pc = "done"
    /\ raised = "none"
    /\ \A name \in NodeNames : executed[name] = 1
    /\ \A n \in Nodes : n.outputs \subseteq catalog

-----------------------------------------------------------------------------
(* The two variants of the search compared, specification Spec: the run of *)
(* the variant that was called against the loop of the other variant on    *)
(* the same tables and label.                                              *)

OtherVariant ==
    IF fn = "find_nearest_locations" THEN "_find_nearest_locations"
    ELSE "find_nearest_locations"

\* C26: on the same source table, target table and label the variant that
\* was called reports, row by row and in the same order, the rows of the
\* other variant with the same names and distances, returns when the other
\* returns, and fails with the other's exception when the other fails (no
\* target: ValueError; no source row: KeyError).
C26_VariantsEquivalent ==
    LET other == SequentialLoop(OtherVariant, hdb_addresses, locations, location_type)
    IN  /\ \A k \in 1..Len(Reported) :
              other.raised = "none" /\ Reported[k] = other.value[1][k]
        /\ pc = "done" =>
              /\ other.raised = "none"
              /\ result_df.rows = other.value[1]
              /\ result_df.columns = DataFrameOf(other.value[1]).columns
        /\ pc = "error" => raised = other.raised
        /\ other.raised # "none" => pc # "done"

\* C26 witness: a call of geo_utils.find_nearest_locations returned two
\* rows with different names at positive distances
C26_Witness ==
    /\ fn = "find_nearest_locations"
    /\ pc = "done"
    /\ Len(result_df.rows) = 2
    /\ result_df.rows[1][NameCol(location_type)] # result_df.rows[2][NameCol(location_type)]
    /\ \A k \in 1..2 : FloatLt(Some(0), result_df.rows[k][DistCol(location_type)])


====
